---------------------------- MODULE Spec2Model ----------------------------
(***************************************************************************)
(* TaskTonic runtime core: ledger, essence lifecycle, catalyst, tonic and  *)
(* the hierarchical store.                                                 *)
(*                                                                         *)
(* Conventions                                                             *)
(*  - Python objects are drawn from a pool Ent == 1..NEnt; 0 stands for    *)
(*    None.  An object that was never constructed is not in `made`.        *)
(*  - Ledger ids are the 0-based list indices of the source; slot i of a   *)
(*    Python list is element i+1 of the TLA+ sequence.                     *)
(*  - src/TaskTonic/ttLedger.py declares unregister(essence) while every   *)
(*    caller (ttEssence._finished, the test doubles) passes the id; the    *)
(*    model follows the callers and takes the id as the argument.          *)
(*  - ttLedger.get_service_essence and ttLedger.update_record are called   *)
(*    by ttEssence.py but are absent from the ledger source; they are      *)
(*    modelled from the specification text.                                *)
(***************************************************************************)
EXTENDS Integers, Sequences, FiniteSets, TLC

\* ------------------------------------------------------------------ bounds
NEnt == 3          \* size of the object pool
NThreads == 2      \* threads that may construct a service concurrently
MaxFinalized == 2  \* cap on the per-object counter of _finished() runs
MaxBindings == 2   \* no bind is issued on a bindings list of this length
MaxHolders == 2    \* no service request is issued beyond this many holders
RecursionLimit == 3 * NEnt  \* runs of _finished() within one call

Ent == 1..NEnt
Threads == 1..NThreads
None == 0
ServiceKey == "K"

\* ------------------------------------------------------------ ttRWLock
NLockThreads == 3  \* threads that use the ledger's lock
LockThreads == 1..NLockThreads

\* RWLock.__init__; `at` is the position of each thread: "idle", inside
\* read_access ("reading") or write_access ("writing"), blocked in
\* _can_read.wait() / _can_write.wait(), or notified and about to re-test
\* the loop condition ("r_woken", "w_woken")
RWLock___init__ ==
  [version |-> 0, _readers_active |-> 0, _writers_waiting |-> 0,
   _writing |-> FALSE, at |-> [t \in LockThreads |-> "idle"]]

\* ------------------------------------------------------------------- state
VARIABLES
  essences,         \* ttLedger.essences : list of objects or None
  records,          \* ttLedger.records  : list of record owners or None
  made,             \* objects whose __init__ has run
  id,               \* ttEssence.id
  context,          \* ttEssence.context (object or None)
  bindings,         \* ttEssence.bindings (list of ids)
  finishing,        \* ttEssence.finishing
  service,          \* my_record['service'] ("" when the key is absent)
  is_service,       \* hasattr(self, 'service_context')
  service_context,  \* ttEssence.service_context (list of objects)
  finalized,        \* number of completed runs of _finished() per object
  svc_pc,           \* per thread: position inside __ttEssenceMeta.__call__
  svc_req,          \* per thread: arguments of the pending service request
  lastOp,           \* the operation performed by the last step
  kind,             \* class of the object: "essence", "tonic" or "catalyst"
  catalyst,         \* ttTonic.catalyst
  catalyst_queue,   \* ttCatalyst.catalyst_queue (per catalyst object)
  extra_sparkles,   \* ttCatalyst.extra_sparkles
  sparkling,        \* ttCatalyst.sparkling
  tonics_sparkling, \* ttCatalyst.tonics_sparkling
  state,            \* ttTonic.state
  exec_mode,        \* which function _execute_sparkle is patched to
  nput,             \* per catalyst: number of items put on its queue so far
  pc,               \* per catalyst: position of its loop thread
  cur,              \* per catalyst: the sparkle being executed
  runs,             \* per catalyst: does the current sparkle's handler run
  impl,             \* per object: the ttsc_<state>__s / ttsc__s methods of its class
  handler,          \* per catalyst: the method the current sparkle resolved to
  calls,            \* per catalyst: calls made by the running user handler
  nrun,             \* per catalyst: number of queue items taken so far
  active,           \* per catalyst: items whose handler started, not ended
  trace,            \* per tonic: announced transition steps not yet run
  uputs,            \* number of calls made by user code so far
  storage,          \* Store._storage : path -> [val, children]
  subscribers,      \* Store._subscribers : path -> list of entries
  local,            \* Store._local, per thread
  frames,           \* per thread: the open group() frames (saved values)
  nops,             \* number of store operations issued so far
  log,              \* the flushes run by the last step and their callbacks
  cursor,           \* per thread: the Item returned by append(), not yet written
  appended,         \* the list items created so far: thread, path, value written
  clock,            \* time.time()
  reference,        \* per catalyst: the local `reference` of sparkle()
  timers,           \* ttCatalyst.timers (list of timer objects)
  tm,               \* per timer: its class, expire, period and paused_at
  fired,            \* the sparkle_back calls made so far
  heap,             \* the Python objects passed as arguments, by address
  rwlock            \* ttLedger._lock: the RWLock fields, each thread's position

essenceVars == <<essences, records, made, id, context, bindings, finishing,
                 service, is_service, service_context, finalized>>
queueVars == <<catalyst_queue, extra_sparkles, sparkling, tonics_sparkling,
               state, exec_mode, nput>>
classVars == <<kind, catalyst>>
threadVars == <<pc, cur, runs, impl, handler, calls, nrun, active, trace,
               uputs>>
appendVars == <<cursor, appended>>
storeVars == <<storage, subscribers, local, frames, nops, log, appendVars>>
coreVars == <<essenceVars, queueVars, classVars, threadVars, svc_pc, svc_req,
              lastOp>>
timerVars == <<clock, reference, timers, tm, fired>>
vars == <<coreVars, storeVars, timerVars, heap, rwlock>>

\* --------------------------------------------------------- list primitives
\* list.remove(x): removes the first occurrence (callers guard membership)
RECURSIVE ListRemove(_, _)
ListRemove(s, x) ==
  IF s = <<>> THEN <<>>
  ELSE IF Head(s) = x THEN Tail(s)
  ELSE <<Head(s)>> \o ListRemove(Tail(s), x)

InList(s, x) == \E i \in 1..Len(s) : s[i] = x

\* list.index(x): 0-based position of the first occurrence, -1 for ValueError
RECURSIVE ListIndexFrom(_, _, _)
ListIndexFrom(s, x, i) ==
  IF i > Len(s) THEN -1
  ELSE IF s[i] = x THEN i - 1
  ELSE ListIndexFrom(s, x, i + 1)

ListIndex(s, x) == ListIndexFrom(s, x, 1)

\* ------------------------------------------------------------------ world
\* The lifecycle operations call each other recursively; they are written
\* as functions on a record holding the objects' fields.  `exc` is set when
\* an exception propagates out of the running call.
World ==
  [ess |-> essences, rec |-> records, made |-> made, id |-> id,
   context |-> context, bindings |-> bindings, finishing |-> finishing,
   service |-> service, is_service |-> is_service,
   service_context |-> service_context, finalized |-> finalized,
   kind |-> kind, catalyst |-> catalyst, queue |-> catalyst_queue,
   extra |-> extra_sparkles, sparkling |-> sparkling,
   tonics |-> tonics_sparkling, state |-> state, mode |-> exec_mode,
   nput |-> nput, exc |-> FALSE, calls |-> 0,
   hooks |-> <<>>]

Raise(w) == [w EXCEPT !.exc = TRUE]

\* ----------------------------------------------------------------- ledger
\* ttLedger.get_essence_by_id.  A negative id indexes from the end of the
\* Python list; IndexErr is returned where Python raises IndexError.
IndexErr == -9

ttLedger_get_essence_by_id(w, i) ==
  IF i >= Len(w.ess) THEN None
  ELSE IF i >= 0 THEN w.ess[i + 1]
  ELSE IF Len(w.ess) + i >= 0 THEN w.ess[Len(w.ess) + i + 1]
  ELSE IndexErr

\* A plausible slip: register never reuses a hole
register_appendOnly(w, e) ==
  [w |-> [w EXCEPT !.ess = Append(@, e), !.rec = Append(@, e)],
   id |-> Len(w.ess)]

\* ttLedger.register without fixed_id: the first None slot of `essences`
\* is reused (only `essences` is written there), otherwise both lists grow.
ttLedger_register(w, e) ==
  LET idx == ListIndex(w.ess, None) IN
  IF idx # -1
    THEN [w |-> [w EXCEPT !.ess[idx + 1] = e], id |-> idx]
    ELSE [w |-> [w EXCEPT !.ess = Append(@, e), !.rec = Append(@, e)],
          id |-> Len(w.ess)]

\* ttLedger.unregister, called with the id
ttLedger_unregister(w, ess_id) ==
  IF ess_id = -1 \/ ess_id >= Len(w.ess) THEN Raise(w)
  ELSE IF w.ess[ess_id + 1] = None THEN Raise(w)
  ELSE [w EXCEPT !.ess[ess_id + 1] = None, !.rec[ess_id + 1] = None]

\* ttLedger.update_record(id, {'service': key}): merges into the record of
\* the slot, which is the my_record dict of its owner; fails on an empty slot
ttLedger_update_record(w, ess_id, key) ==
  IF ess_id < 0 \/ ess_id >= Len(w.rec) THEN Raise(w)
  ELSE IF w.rec[ess_id + 1] = None THEN Raise(w)
  ELSE [w EXCEPT !.service[w.rec[ess_id + 1]] = key]

\* ttLedger.get_service_essence(key): the entity of the first slot whose
\* record carries service == key, None when there is none
ttLedger_get_service_essence(w, key) ==
  LET S == {i \in 1..Len(w.rec) :
              /\ w.rec[i] # None
              /\ w.service[w.rec[i]] = key
              /\ w.ess[i] # None}
  IN IF S = {} THEN None
     ELSE w.ess[CHOOSE i \in S : \A j \in S : i <= j]

\* ---------------------------------------------------------------- essence
\* ttEssence.unbind
ttEssence_unbind(w, p, ess_id) ==
  IF InList(w.bindings[p], ess_id)
    THEN [w EXCEPT !.bindings[p] = ListRemove(@, ess_id)]
    ELSE w

RECURSIVE call_finish(_, _, _)
RECURSIVE call__finished(_, _)
RECURSIVE call_binding_finished(_, _, _)
RECURSIVE ttEssence_finish(_, _, _)
RECURSIVE ttEssence__finish_service_context(_, _, _)
RECURSIVE ttEssence__finish(_, _)
RECURSIVE FinishEach(_, _, _)
RECURSIVE ttEssence__finished(_, _)
RECURSIVE NotifyEach(_, _, _)
RECURSIVE ttEssence_binding_finished(_, _, _)

\* A plausible slip: finish without the `finishing` guard
finish_noGuard(w, e, from) ==
  LET fc == IF from # None THEN from ELSE e
      r  == ttEssence__finish_service_context(w, e, fc)
  IN IF r.w.exc THEN r.w
     ELSE IF r.found /\ Len(r.w.service_context[e]) > 0 THEN r.w
     ELSE ttEssence__finish([r.w EXCEPT !.finishing[e] = TRUE], e)

\* ttEssence.finish
ttEssence_finish(w, e, from) ==
  IF w.exc \/ w.finishing[e] THEN w
  ELSE
    LET fc == IF from # None THEN from ELSE e
        r  == ttEssence__finish_service_context(w, e, fc)
    IN IF r.w.exc THEN r.w
       ELSE IF r.found /\ Len(r.w.service_context[e]) > 0 THEN r.w
       ELSE ttEssence__finish([r.w EXCEPT !.finishing[e] = TRUE], e)

\* ttEssence._finish_service_context; `found` is its return value.  The
\* two ttse__on_..._finished events are tonic dispatchers and do not exist
\* on a plain essence (AttributeError, swallowed).
ttEssence__finish_service_context(w, e, from) ==
  IF from # None /\ w.is_service[e] /\ InList(w.service_context[e], from)
    THEN LET w1 == [w EXCEPT !.service_context[e] = ListRemove(@, from)]
         IN [w |-> call_binding_finished(w1, from, w1.id[e]),
             found |-> TRUE]
    ELSE [w |-> w, found |-> FALSE]

\* ttEssence._finish
ttEssence__finish(w, e) ==
  IF w.exc THEN w
  ELSE IF w.bindings[e] = <<>> THEN call__finished(w, e)
  ELSE FinishEach(w, e, w.bindings[e])

\* the loop of _finish over bindings.copy()
FinishEach(w, e, ids) ==
  IF w.exc \/ ids = <<>> THEN w
  ELSE LET ess == ttLedger_get_essence_by_id(w, Head(ids)) IN
       IF ess = IndexErr THEN Raise(w)
       ELSE IF ess # None
         THEN FinishEach(call_finish(w, ess, e), e, Tail(ids))
         ELSE FinishEach(w, e, Tail(ids))

\* ttEssence._finished.  A holder of a service that is also a child of that
\* service makes _finished and binding_finished call each other without
\* end; Python stops that with RecursionError, the model after
\* RecursionLimit nested runs.
ttEssence__finished(w, e) ==
  IF w.exc THEN w
  ELSE IF w.calls >= RecursionLimit THEN Raise(w)
  ELSE
    LET scs == IF w.is_service[e] THEN w.service_context[e] ELSE <<>>
        w0  == [w EXCEPT !.calls = @ + 1]
        w1  == NotifyEach(w0, e, scs)
        w2  == IF w1.exc \/ w1.context[e] = None THEN w1
               ELSE call_binding_finished(w1, w1.context[e], w1.id[e])
        w3  == IF w2.exc THEN w2 ELSE ttLedger_unregister(w2, w2.id[e])
    IN IF w3.exc THEN w3
       ELSE [w3 EXCEPT !.id[e] = -1,
                       !.finalized[e] = IF @ < MaxFinalized THEN @ + 1 ELSE @]

\* the loop of _finished over service_context
NotifyEach(w, e, scs) ==
  IF w.exc \/ scs = <<>> THEN w
  ELSE NotifyEach(call_binding_finished(w, Head(scs), w.id[e]),
                  e, Tail(scs))

\* ttEssence.binding_finished
ttEssence_binding_finished(w, p, ess_id) ==
  IF w.exc THEN w
  ELSE LET w1 == ttEssence_unbind(w, p, ess_id) IN
       IF w1.finishing[p] /\ w1.bindings[p] = <<>>
         THEN call__finished(w1, p)
         ELSE w1

\* ------------------------------------------------------- tonic, catalyst
\* queue.Queue.put on the queue of catalyst c; k numbers the puts per queue
put(w, c, inst, name, arg) ==
  [w EXCEPT !.queue[c] = Append(@, [inst |-> inst, name |-> name,
                                    arg |-> arg, k |-> w.nput[c] + 1]),
            !.nput[c] = @ + 1]

\* ttCatalyst._execute_extra_sparkle
ttCatalyst__execute_extra_sparkle(w, c, inst, name, arg) ==
  [w EXCEPT !.extra[c] = Append(@, [inst |-> inst, name |-> name,
                                    arg |-> arg, k |-> 0])]

\* ttTonic.finish: the dispatcher of _ttss__finish puts the request
ttTonic_finish(w, e, from) ==
  IF w.exc \/ w.finishing[e] THEN w
  ELSE put(w, w.catalyst[e], e, "_ttss__finish",
           IF from # None THEN from ELSE e)

\* ttTonic.binding_finished: the dispatcher of _ttss__on_binding_finished
ttTonic_binding_finished(w, p, ess_id) ==
  IF w.exc THEN w
  ELSE put(w, w.catalyst[p], p, "_ttss__on_binding_finished", ess_id)

\* ttTonic._finished
ttTonic__finished(w, e) ==
  IF w.exc THEN w
  ELSE ttEssence__finished(
         put(w, w.catalyst[e], w.catalyst[e],
             "_ttss__remove_tonic_from_catalyst", w.id[e]), e)

\* ttCatalyst._finished
ttCatalyst__finished(w, e) ==
  LET w1 == ttTonic__finished(w, e) IN
  IF w1.exc THEN w1 ELSE [w1 EXCEPT !.sparkling[e] = FALSE]

\* method resolution by class
call_finish(w, e, from) ==
  IF w.kind[e] = "essence" THEN ttEssence_finish(w, e, from)
  ELSE ttTonic_finish(w, e, from)

call__finished(w, e) ==
  IF w.kind[e] = "essence" THEN ttEssence__finished(w, e)
  ELSE IF w.kind[e] = "tonic" THEN ttTonic__finished(w, e)
  ELSE ttCatalyst__finished(w, e)

call_binding_finished(w, p, ess_id) ==
  IF w.kind[p] = "essence" THEN ttEssence_binding_finished(w, p, ess_id)
  ELSE ttTonic_binding_finished(w, p, ess_id)

\* ttEssence.__init__: resolve the context, register, initialise the fields
\* (logging is off: formula key tasktonic/log/to == 'off')
ttEssence___init__(w, e, c) ==
  LET r == ttLedger_register(w, e) IN
  [r.w EXCEPT !.made = @ \cup {e},
              !.context[e] = c,
              !.bindings[e] = <<>>,
              !.id[e] = r.id,
              !.finishing[e] = FALSE]

\* ttEssence.bind(cls): construct with context=self, then record the id
ttEssence_bind_class(w, p, e) ==
  LET w1 == ttEssence___init__(w, e, p) IN
  [w1 EXCEPT !.bindings[p] = Append(@, w1.id[e])]

\* ttEssence.bind(instance)
ttEssence_bind_instance(w, p, e) ==
  LET sc == IF w.is_service[e] THEN w.service_context[e] ELSE <<>> IN
  IF w.context[e] # p /\ ~InList(sc, p) THEN Raise(w)
  ELSE [w EXCEPT !.bindings[p] = Append(@, w.id[e])]

\* __ttEssenceMeta.__call__, service path, after the lookup returned
\* `existing`; `fresh` is the object allocated when a new one is built
ttEssenceMeta_call_service(w, existing, fresh, c, via) ==
  LET w1 == IF existing = None
              THEN LET a == ttEssence___init__(
                              [w EXCEPT !.hooks = Append(@, "__init__")],
                              fresh, c)
                       b == ttLedger_update_record(a, a.id[fresh], ServiceKey)
                   IN IF b.exc THEN b
                      ELSE [b EXCEPT !.is_service[fresh] = TRUE,
                                     !.service_context[fresh] = <<>>,
                                     !.hooks = Append(@, "_init_post_action")]
              ELSE IF c = None THEN Raise(w)
              ELSE [w EXCEPT !.service_context[existing] = Append(@, c)]
      w2 == IF w1.exc THEN w1
            ELSE [w1 EXCEPT !.hooks = Append(@, "_init_service")]
      inst == IF existing = None THEN fresh ELSE existing
  IN IF w2.exc \/ via # "bind" THEN w2
     ELSE [w2 EXCEPT !.bindings[c] = Append(@, w2.id[inst])]

\* ------------------------------------------------------- tonic handlers
NStates == 2   \* states discovered on a tonic: indices 0..NStates-1

\* ttTonic.to_state for an int argument
ttTonic_to_state(w, e, x) ==
  IF ~(x = -1 \/ (0 <= x /\ x < NStates)) THEN w
  ELSE
    LET c  == w.catalyst[e]
        w1 == IF w.state[e] # -1
                THEN ttCatalyst__execute_extra_sparkle(w, c, e, "ttse__on_exit", None)
                ELSE w
    IN IF x >= 0
         THEN ttCatalyst__execute_extra_sparkle(
                ttCatalyst__execute_extra_sparkle(
                  w1, c, e, "_ttinternal_state_change_to", x),
                c, e, "ttse__on_enter", None)
         ELSE ttCatalyst__execute_extra_sparkle(
                w1, c, e, "_ttinternal_state_machine_stop", None)

\* ttTonic._ttss__finish (the handler).  ttse__on_service_context_finished
\* is not defined on the modelled tonics.
ttTonic__ttss__finish(w, e, from) ==
  IF w.finishing[e] THEN w
  ELSE
    LET r == ttEssence__finish_service_context(w, e, from) IN
    IF r.w.exc THEN r.w
    ELSE IF r.found /\ Len(r.w.service_context[e]) > 0 THEN r.w
    ELSE
      LET w1 == [r.w EXCEPT !.finishing[e] = TRUE, !.mode[e] = "system"]
          w2 == IF w1.state[e] # -1 THEN ttTonic_to_state(w1, e, -1) ELSE w1
          w3 == put(w2, w2.catalyst[e], e, "ttse__on_finished", None)
      IN put(w3, w3.catalyst[e], e, "_ttss__on_finished", from)

\* ttCatalyst._ttss__bind_tonic_to_catalyst
ttCatalyst__ttss__bind_tonic_to_catalyst(w, c, tonic_id) ==
  IF InList(w.tonics[c], tonic_id) THEN w
  ELSE [w EXCEPT !.tonics[c] = Append(@, tonic_id)]

\* A plausible slip: the catalyst keeps running when its last tonic left
remove_tonic_keeps_running(w, c, tonic_id) ==
  IF InList(w.tonics[c], tonic_id)
    THEN [w EXCEPT !.tonics[c] = ListRemove(@, tonic_id)]
    ELSE w

\* ttCatalyst._ttss__remove_tonic_from_catalyst
ttCatalyst__ttss__remove_tonic_from_catalyst(w, c, tonic_id) ==
  LET w1 == IF InList(w.tonics[c], tonic_id)
              THEN [w EXCEPT !.tonics[c] = ListRemove(@, tonic_id)]
              ELSE w
  IN IF w1.tonics[c] = <<>> THEN ttTonic_finish(w1, c, None) ELSE w1

\* the code a handler runs by itself; the calls a user handler makes are
\* separate steps of the catalyst thread
HandlerBody(w, sp) ==
  LET e == sp.inst IN
  CASE sp.name = "_ttss__finish" -> ttTonic__ttss__finish(w, e, sp.arg)
    [] sp.name = "_ttss__on_finished" -> ttEssence__finish(w, e)
    [] sp.name = "_ttss__on_binding_finished" ->
         ttEssence_binding_finished(w, e, sp.arg)
    [] sp.name = "_ttss__bind_tonic_to_catalyst" ->
         ttCatalyst__ttss__bind_tonic_to_catalyst(w, e, sp.arg)
    [] sp.name = "_ttss__remove_tonic_from_catalyst" ->
         ttCatalyst__ttss__remove_tonic_from_catalyst(w, e, sp.arg)
    [] sp.name = "_ttss__main_catalyst_finished" -> ttTonic_finish(w, e, None)
    [] sp.name = "_ttinternal_state_change_to" -> [w EXCEPT !.state[e] = sp.arg]
    [] sp.name = "_ttinternal_state_machine_stop" -> [w EXCEPT !.state[e] = -1]
    [] OTHER -> w

\* handlers written by the user of the framework
UserHandlers == {"tts__h", "tts__s", "ttse__on_start", "ttse__on_finished",
                 "ttse__on_enter", "ttse__on_exit"}

\* A plausible slip: the finish mode lets every sparkle through
exec_system_all(name) == TRUE

\* ttTonic.__exec_system_sparkle: which sparkles still run in finish mode
ttTonic___exec_system_sparkle(name) ==
  \/ name \in {"_ttss__finish", "_ttss__on_finished", "_ttss__on_start",
               "_ttss__on_binding_finished", "_ttss__bind_tonic_to_catalyst",
               "_ttss__remove_tonic_from_catalyst",
               "_ttss__main_catalyst_finished"}
  \/ name \in {"ttse__on_finished", "ttse__on_exit",
               "ttse__on_service_context_finished",
               "_ttinternal_state_machine_stop"}

\* instance._execute_sparkle as patched: does the sparkle's handler run
Executes(w, sp) ==
  IF w.mode[sp.inst] = "normal" THEN TRUE
  ELSE ttTonic___exec_system_sparkle(sp.name)

\* ttTonic.__init__ (after ttEssence.__init__): attach to the catalyst
ttTonic___init__(w, e, c) ==
  LET w1 == ttEssence___init__(w, e, c)
      w2 == IF w1.kind[e] = "catalyst" THEN [w1 EXCEPT !.catalyst[e] = e]
            ELSE LET cat == IF c # None /\ w1.kind[c] # "essence"
                              THEN w1.catalyst[c]
                              ELSE ttLedger_get_essence_by_id(w1, 0)
                 IN put([w1 EXCEPT !.catalyst[e] = cat], cat, cat,
                        "_ttss__bind_tonic_to_catalyst", w1.id[e])
  IN [w2 EXCEPT !.state[e] = -1, !.mode[e] = "normal"]

\* ttTonic._init_post_action; ttTonic defines both _ttss__on_start and
\* ttse__on_start, so both hasattr tests succeed for tonics and catalysts
ttTonic__init_post_action(w, e) ==
  LET w1 == put(w, w.catalyst[e], e, "_ttss__on_start", None) IN
  put(w1, w.catalyst[e], e, "ttse__on_start", None)

\* -------------------------------------------------- ledger specification
NoId == -2   \* the id attribute of an object that was never constructed

Commit(w) ==
  \E v \in {w} :
    /\ essences' = v.ess
    /\ records' = v.rec
    /\ made' = v.made
    /\ id' = v.id
    /\ context' = v.context
    /\ bindings' = v.bindings
    /\ finishing' = v.finishing
    /\ service' = v.service
    /\ is_service' = v.is_service
    /\ service_context' = v.service_context
    /\ finalized' = v.finalized
    /\ kind' = v.kind
    /\ catalyst' = v.catalyst
    /\ catalyst_queue' = v.queue
    /\ extra_sparkles' = v.extra
    /\ sparkling' = v.sparkling
    /\ tonics_sparkling' = v.tonics
    /\ state' = v.state
    /\ exec_mode' = v.mode
    /\ nput' = v.nput

\* `again`: the target of a finish() call was already finishing
Op(name, a, again, w) ==
  [op |-> name, a |-> a, again |-> again, raised |-> w.exc,
   hooks |-> w.hooks]

NoTrace == [pend |-> <<>>, own |-> 0, st |-> -1, bad |-> FALSE,
            ran |-> <<>>]
NoSparkle == [inst |-> None, name |-> "", arg |-> None, k |-> 0]
\* a class without state-specific methods; no method selected
NoImpl == [specific |-> {}, generic |-> FALSE]
NoHandler == [h |-> "", st |-> -1]

\* a timer object that was never constructed
NoTimer == [cls |-> "", expire |-> -1, period |-> 0, paused_at |-> -1]

\* no timer exists
TimersIdle ==
  /\ clock = 0
  /\ reference = [c \in Ent |-> 0]
  /\ timers = [c \in Ent |-> <<>>]
  /\ tm = [e \in Ent |-> NoTimer]
  /\ fired = <<>>

\* no catalyst thread exists
ThreadsIdle ==
  /\ pc = [c \in Ent |-> "none"]
  /\ cur = [c \in Ent |-> NoSparkle]
  /\ runs = [c \in Ent |-> FALSE]
  /\ impl = [e \in Ent |-> NoImpl]
  /\ handler = [c \in Ent |-> NoHandler]
  /\ calls = [c \in Ent |-> 0]
  /\ nrun = [c \in Ent |-> 0]
  /\ active = [c \in Ent |-> {}]
  /\ trace = [c \in Ent |-> NoTrace]
  /\ uputs = 0

EmptyWorld(k) ==
  [ess |-> <<>>, rec |-> <<>>, made |-> {},
   id |-> [e \in Ent |-> NoId],
   context |-> [e \in Ent |-> None],
   bindings |-> [e \in Ent |-> <<>>],
   finishing |-> [e \in Ent |-> FALSE],
   service |-> [e \in Ent |-> ""],
   is_service |-> [e \in Ent |-> FALSE],
   service_context |-> [e \in Ent |-> <<>>],
   finalized |-> [e \in Ent |-> 0],
   kind |-> k,
   catalyst |-> [e \in Ent |-> None],
   queue |-> [e \in Ent |-> <<>>],
   extra |-> [e \in Ent |-> <<>>],
   sparkling |-> [e \in Ent |-> FALSE],
   tonics |-> [e \in Ent |-> <<>>],
   state |-> [e \in Ent |-> -1],
   mode |-> [e \in Ent |-> "normal"],
   nput |-> [e \in Ent |-> 0],
   exc |-> FALSE, calls |-> 0,
   hooks |-> <<>>]

Holds(w) ==
  \E v \in {w} :
    /\ essences = v.ess
    /\ records = v.rec
    /\ made = v.made
    /\ id = v.id
    /\ context = v.context
    /\ bindings = v.bindings
    /\ finishing = v.finishing
    /\ service = v.service
    /\ is_service = v.is_service
    /\ service_context = v.service_context
    /\ finalized = v.finalized
    /\ kind = v.kind
    /\ catalyst = v.catalyst
    /\ catalyst_queue = v.queue
    /\ extra_sparkles = v.extra
    /\ sparkling = v.sparkling
    /\ tonics_sparkling = v.tonics
    /\ state = v.state
    /\ exec_mode = v.mode
    /\ nput = v.nput

ServiceIdle ==
  /\ svc_pc = [t \in Threads |-> "idle"]
  /\ svc_req = [t \in Threads |-> [c |-> None, via |-> "direct", existing |-> None]]

\* the `val` of a node without a value, and the source of an event raised
\* outside any source() group (both None in the source)
NoSrc == ""

\* threading.local() of a thread that has not used the store yet; an
\* attribute that is absent reads as the default the code installs for it
NoLocal ==
  [batch_stack |-> 0, pending_changes |-> <<>>,
   current_source |-> NoSrc, group_notify |-> TRUE]

\* no Item is held between an append and the write that follows it
NoCursor == [on |-> FALSE, path |-> <<>>]

\* Store.__init__: the pre-allocated root
StoreNew ==
  /\ storage = (<<>> :> [val |-> None, children |-> {}])
  /\ subscribers = <<>>
  /\ local = [t \in Threads |-> NoLocal]
  /\ frames = [t \in Threads |-> <<>>]
  /\ nops = 0
  /\ log = <<>>
  /\ cursor = [t \in Threads |-> NoCursor]
  /\ appended = <<>>

\* an empty ledger, every object of the pool a plain ttEssence
LedgerInit ==
  /\ ThreadsIdle
  /\ ServiceIdle
  /\ StoreNew
  /\ TimersIdle
  /\ heap = <<>>
  /\ rwlock = RWLock___init__
  /\ Holds(EmptyWorld([e \in Ent |-> "essence"]))
  /\ lastOp = [op |-> "init", a |-> None, again |-> FALSE, raised |-> FALSE,
              hooks |-> <<>>]

\* objects are allocated in pool order
Fresh(e) == e \notin made /\ \A f \in Ent : f < e => f \in made

\* X(context=c)
Create(e, c) ==
  /\ Fresh(e)
  /\ LET w == ttEssence___init__(World, e, c) IN
       Commit(w) /\ lastOp' = Op("create", e, FALSE, w)
  /\ UNCHANGED <<svc_pc, svc_req, threadVars, storeVars, timerVars, heap, rwlock>>

\* p.bind(X)
BindClass(p, e) ==
  /\ Fresh(e) /\ p \in made
  /\ Len(bindings[p]) < MaxBindings
  /\ LET w == ttEssence_bind_class(World, p, e) IN
       Commit(w) /\ lastOp' = Op("bind", e, FALSE, w)
  /\ UNCHANGED <<svc_pc, svc_req, threadVars, storeVars, timerVars, heap, rwlock>>

\* p.bind(e) for an existing instance e
BindInstance(p, e) ==
  /\ p \in made /\ e \in made /\ p # e
  /\ id[e] >= 0 /\ ~InList(bindings[p], id[e])
  /\ Len(bindings[p]) < MaxBindings
  /\ LET w == ttEssence_bind_instance(World, p, e) IN
       Commit(w) /\ lastOp' = Op("bind_instance", e, FALSE, w)
  /\ UNCHANGED <<svc_pc, svc_req, threadVars, storeVars, timerVars, heap, rwlock>>

\* e.finish()
Finish(e) ==
  /\ e \in made
  /\ LET w == call_finish(World, e, None) IN
       Commit(w) /\ lastOp' = Op("finish", e, finishing[e], w)
  /\ UNCHANGED <<svc_pc, svc_req, threadVars, storeVars, timerVars, heap, rwlock>>

\* a thread enters Service(context=c) or c.bind(Service): the lookup
ServiceLookup(t, c, via) ==
  /\ svc_pc[t] = "idle"
  /\ c = None \/ (c \in made /\ ~is_service[c])
  /\ via = "bind" => c # None /\ Len(bindings[c]) < MaxBindings
  /\ \A s \in made : Len(service_context[s]) < MaxHolders
  /\ \E e \in Ent : e \notin made
  /\ svc_pc' = [svc_pc EXCEPT ![t] = "looked"]
  /\ svc_req' = [svc_req EXCEPT ![t] =
        [c |-> c, via |-> via,
         existing |-> ttLedger_get_service_essence(World, ServiceKey)]]
  /\ lastOp' = [op |-> "service_lookup", a |-> t, again |-> FALSE, raised |-> FALSE,
              hooks |-> <<>>]
  /\ UNCHANGED <<essenceVars, queueVars, classVars, threadVars, storeVars,
                 timerVars, heap, rwlock>>

\* the same thread continues after the lookup
ServiceConstruct(t) ==
  /\ svc_pc[t] = "looked"
  /\ \E e \in Ent \cup {None} :
       /\ IF svc_req[t].existing = None THEN e # None /\ Fresh(e) ELSE e = None
       /\ LET r == svc_req[t]
              w == ttEssenceMeta_call_service(World, r.existing, e, r.c, r.via)
          IN Commit(w) /\ lastOp' = Op("service", t, FALSE, w)
  /\ svc_pc' = [svc_pc EXCEPT ![t] = "idle"]
  /\ svc_req' = [svc_req EXCEPT ![t] = [c |-> None, via |-> "direct", existing |-> None]]
  /\ UNCHANGED <<threadVars, storeVars, timerVars, heap, rwlock>>

\* Entities created and bound in any shape, finished in any order
LedgerNext ==
  \/ \E e \in Ent, c \in Ent \cup {None} : c \in made \cup {None} /\ Create(e, c)
  \/ \E p \in Ent, e \in Ent : BindClass(p, e)
  \/ \E p \in Ent, e \in Ent : BindInstance(p, e)
  \/ \E e \in Ent : Finish(e)

SpecLedger == LedgerInit /\ [][LedgerNext]_vars

\* Top-level entities requesting the service from concurrent threads
ServiceNext ==
  \/ \E e \in Ent : Create(e, None)
  \/ \E e \in Ent : Finish(e)
  \/ \E t \in Threads, c \in Ent \cup {None}, via \in {"direct", "bind"} :
        ServiceLookup(t, c, via)
  \/ \E t \in Threads : ServiceConstruct(t)

SpecService == LedgerInit /\ [][ServiceNext]_vars

\* ------------------------------------------- state-aware dispatcher
\* _sparkle_init, path A: the handler_list of the state-aware sparkle s of
\* a class that defines ttsc_<state>__s for the states in im.specific and,
\* when im.generic, ttsc__s.  Entry i + 1 is the entry of state index i.
handler_list(im) ==
  [i \in 1..NStates |->
     IF (i - 1) \in im.specific THEN [h |-> "state", st |-> i - 1]
     ELSE IF im.generic THEN [h |-> "generic", st |-> -1]
     ELSE [h |-> "_noop", st |-> -1]]

\* _list[self.state]: a negative index counts from the end of the list
list_getitem(l, i) ==
  IF i >= 0 THEN l[i + 1] ELSE l[Len(l) + i + 1]

\* the method a sparkle runs when _execute_sparkle lets it through:
\* execute_state_sparkle looks the state up when it is executed, every
\* other sparkle carries its one method
Resolve(w, sp, run) ==
  IF ~run THEN NoHandler
  ELSE IF sp.name = "tts__s"
    THEN list_getitem(handler_list(impl[sp.inst]), w.state[sp.inst])
    ELSE [h |-> "method", st |-> -1]

\* ------------------------------------------------ catalyst specification
MaxCalls == 2   \* calls a user handler makes before it returns
MaxPuts == 3    \* calls user code makes in a run (dispatch, to_state, finish)

\* A plausible slip: the loop takes the newest item of the queue
queue_get_newest(q) ==
  [item |-> q[Len(q)], rest |-> SubSeq(q, 1, Len(q) - 1)]

\* queue.Queue.get as used by ttCatalyst.sparkle: the oldest item
queue_get(q) ==
  [item |-> Head(q), rest |-> Tail(q)]

\* The steps a to_state(x) request announces, as sparkle name and argument
Step(name, arg) == [name |-> name, arg |-> arg]

Announced(st, x) ==
  (IF st # -1 THEN <<Step("ttse__on_exit", None)>> ELSE <<>>)
    \o <<Step("_ttinternal_state_change_to", x), Step("ttse__on_enter", None)>>

\* the sparkles a tonic class of the application writes itself
ClassHandlers == {"ttse__on_start", "tts__a", "tts__b", "tts__c", "tts__h"}

\* bookkeeping of the announced steps of a tonic when one of its sparkles
\* is handed to _execute_sparkle; a filtered sparkle executes nothing.
\* `ran` lists the class's own handlers in the order they were started.
TraceStart(tr, sp, run) ==
  LET t1 == IF run /\ sp.name \in ClassHandlers
              THEN [tr EXCEPT !.ran = Append(@, sp.name)]
              ELSE tr
  IN IF ~run \/ tr.pend = <<>> THEN t1
     ELSE IF Head(tr.pend) = Step(sp.name, sp.arg)
       THEN [t1 EXCEPT !.pend = Tail(@)]
       ELSE [t1 EXCEPT !.bad = TRUE]

\* the loop thread dies: steps announced by handlers that returned are lost
TraceDie(tr) ==
  IF Len(tr.pend) > tr.own THEN [tr EXCEPT !.bad = TRUE] ELSE tr

CatKinds ==
  [e \in Ent |-> IF e = 1 THEN "catalyst"
                 ELSE IF e \in {2, 3} THEN "tonic" ELSE "essence"]

\* ttFormula.__init__: the main catalyst, a starting tonic, and a tonic
\* bound to it; then main_catalyst.start_sparkling() enters the loop
CatWorld ==
  LET w1 == ttTonic__init_post_action(
              ttTonic___init__(EmptyWorld(CatKinds), 1, None), 1)
      w2 == ttTonic__init_post_action(ttTonic___init__(w1, 2, None), 2)
      w3 == ttTonic__init_post_action(ttTonic___init__(w2, 3, 2), 3)
      w4 == [w3 EXCEPT !.bindings[2] = Append(@, w3.id[3])]
  IN [w4 EXCEPT !.sparkling[1] = TRUE]

\* the state when main_catalyst.start_sparkling() has entered the loop,
\* for tonics of a class with the state-aware methods im
CatStart(im) ==
  /\ Holds(CatWorld)
  /\ ServiceIdle
  /\ StoreNew
  /\ TimersIdle
  /\ heap = <<>>
  /\ rwlock = RWLock___init__
  /\ lastOp = [op |-> "init", a |-> None, again |-> FALSE, raised |-> FALSE,
              hooks |-> <<>>]
  /\ pc = [c \in Ent |-> IF c = 1 THEN "idle" ELSE "none"]
  /\ cur = [c \in Ent |-> NoSparkle]
  /\ runs = [c \in Ent |-> FALSE]
  /\ impl = [e \in Ent |-> IF CatKinds[e] = "tonic" THEN im ELSE NoImpl]
  /\ handler = [c \in Ent |-> NoHandler]
  /\ calls = [c \in Ent |-> 0]
  /\ nrun = [c \in Ent |-> 0]
  /\ active = [c \in Ent |-> {}]
  /\ trace = [c \in Ent |-> NoTrace]
  /\ uputs = 0

CatInit == CatStart(NoImpl)

Tonics == {e \in Ent : CatKinds[e] = "tonic"}

\* ttCatalyst.sparkle: catalyst_queue.get and the call of _execute_sparkle
Take(c) ==
  /\ pc[c] = "idle" /\ catalyst_queue[c] # <<>>
  /\ LET g   == queue_get(catalyst_queue[c])
         sp  == g.item
         run == Executes(World, sp)
     IN /\ catalyst_queue' = [catalyst_queue EXCEPT ![c] = g.rest]
        /\ cur' = [cur EXCEPT ![c] = sp]
        /\ runs' = [runs EXCEPT ![c] = run]
        /\ handler' = [handler EXCEPT ![c] = Resolve(World, sp, run)]
        /\ active' = [active EXCEPT ![c] = @ \cup {sp.k}]
        /\ trace' = [trace EXCEPT ![sp.inst] = TraceStart(@, sp, run)]
  /\ pc' = [pc EXCEPT ![c] = "exec"]
  /\ calls' = [calls EXCEPT ![c] = 0]
  /\ nrun' = [nrun EXCEPT ![c] = @ + 1]
  /\ UNCHANGED <<essenceVars, classVars, extra_sparkles, sparkling,
                 tonics_sparkling, state, exec_mode, nput, uputs, impl,
                 svc_pc, svc_req, lastOp, storeVars, timerVars, heap, rwlock>>

\* a user handler is running on the thread of catalyst c
InUserHandler(c) ==
  /\ pc[c] \in {"exec", "xexec"}
  /\ runs[c]
  /\ cur[c].name \in UserHandlers
  /\ handler[c].h # "_noop"
  /\ calls[c] < MaxCalls

\* the running handler dispatches tts__h on tonic t
UserDispatch(c, t) ==
  /\ InUserHandler(c) /\ uputs < MaxPuts
  /\ Commit(put(World, catalyst[t], t, "tts__h", None))
  /\ calls' = [calls EXCEPT ![c] = @ + 1]
  /\ uputs' = uputs + 1
  /\ UNCHANGED <<pc, cur, runs, impl, handler, nrun, active, trace,
                 svc_pc, svc_req, lastOp, storeVars, timerVars, heap, rwlock>>

\* the running handler calls self.to_state(x)
UserToState(c, x) ==
  /\ InUserHandler(c) /\ uputs < MaxPuts
  /\ LET t == cur[c].inst IN
       /\ Commit(ttTonic_to_state(World, t, x))
       /\ trace' = [trace EXCEPT
                      ![t].pend = @ \o Announced(state[t], x),
                      ![t].st = state[t],
                      ![t].own = @ + Len(Announced(state[t], x))]
  /\ calls' = [calls EXCEPT ![c] = @ + 1]
  /\ uputs' = uputs + 1
  /\ UNCHANGED <<pc, cur, runs, impl, handler, nrun, active,
                 svc_pc, svc_req, lastOp, storeVars, timerVars, heap, rwlock>>

\* the running handler calls t.finish()
UserFinish(c, t) ==
  /\ InUserHandler(c) /\ uputs < MaxPuts
  /\ Commit(call_finish(World, t, None))
  /\ calls' = [calls EXCEPT ![c] = @ + 1]
  /\ uputs' = uputs + 1
  /\ UNCHANGED <<pc, cur, runs, impl, handler, nrun, active, trace,
                 svc_pc, svc_req, lastOp, storeVars, timerVars, heap, rwlock>>

\* the running handler raises: nothing in sparkle() catches it
UserRaise(c) ==
  /\ InUserHandler(c)
  /\ pc' = [pc EXCEPT ![c] = "dead"]
  /\ trace' = [trace EXCEPT ![cur[c].inst] = TraceDie(@)]
  /\ UNCHANGED <<essenceVars, queueVars, classVars, cur, runs, impl, handler,
                 calls, nrun, active, uputs, svc_pc, svc_req, lastOp,
                 storeVars, timerVars, heap, rwlock>>

\* the current handler returns; the loop goes on with the extra sparkles
\* (pop(0)), then re-tests `sparkling`
Return(c) ==
  /\ pc[c] \in {"exec", "xexec"}
  /\ LET sp == cur[c] IN
     \E w1 \in {IF runs[c] THEN HandlerBody(World, sp) ELSE World} :
        IF w1.exc
          THEN /\ Commit(w1)
               /\ pc' = [pc EXCEPT ![c] = "dead"]
               /\ trace' = [trace EXCEPT ![sp.inst] = TraceDie(@)]
               /\ UNCHANGED <<cur, runs, handler, active>>
        ELSE IF w1.extra[c] # <<>>
          THEN LET nx  == Head(w1.extra[c])
                   w2  == [w1 EXCEPT !.extra[c] = Tail(@)]
                   run == Executes(w1, nx)
               IN /\ Commit(w2)
                  /\ pc' = [pc EXCEPT ![c] = "xexec"]
                  /\ cur' = [cur EXCEPT ![c] = nx]
                  /\ runs' = [runs EXCEPT ![c] = run]
                  /\ handler' = [handler EXCEPT ![c] = Resolve(w1, nx, run)]
                  /\ trace' = [[trace EXCEPT ![sp.inst].own = 0]
                                 EXCEPT ![nx.inst] = TraceStart(@, nx, run)]
                  /\ UNCHANGED active
        ELSE /\ Commit(w1)
             /\ pc' = [pc EXCEPT ![c] = IF w1.sparkling[c] THEN "idle"
                                        ELSE "stopped"]
             /\ cur' = [cur EXCEPT ![c] = NoSparkle]
             /\ runs' = [runs EXCEPT ![c] = FALSE]
             /\ handler' = [handler EXCEPT ![c] = NoHandler]
             /\ trace' = [trace EXCEPT ![sp.inst].own = 0]
             /\ active' = [active EXCEPT ![c] = {}]
  /\ calls' = [calls EXCEPT ![c] = 0]
  /\ UNCHANGED <<nrun, uputs, impl, svc_pc, svc_req, lastOp, storeVars,
                 timerVars, heap, rwlock>>

\* a thread other than the catalyst's dispatches tts__h on tonic t
ExtDispatch(t) ==
  /\ uputs < MaxPuts
  /\ Commit(put(World, catalyst[t], t, "tts__h", None))
  /\ uputs' = uputs + 1
  /\ UNCHANGED <<pc, cur, runs, impl, handler, calls, nrun, active, trace,
                 svc_pc, svc_req, lastOp, storeVars, timerVars, heap, rwlock>>

\* a thread other than the catalyst's calls t.finish()
ExtFinish(t) ==
  /\ uputs < MaxPuts
  /\ Commit(call_finish(World, t, None))
  /\ uputs' = uputs + 1
  /\ UNCHANGED <<pc, cur, runs, impl, handler, calls, nrun, active, trace,
                 svc_pc, svc_req, lastOp, storeVars, timerVars, heap, rwlock>>

CatNext ==
  \/ \E c \in Ent : Take(c)
  \/ \E c \in Ent, t \in Tonics : UserDispatch(c, t)
  \/ \E c \in Ent, x \in 0..(NStates - 1) : UserToState(c, x)
  \/ \E c \in Ent, t \in Tonics : UserFinish(c, t)
  \/ \E c \in Ent : UserRaise(c)
  \/ \E c \in Ent : Return(c)
  \/ \E t \in Tonics : ExtDispatch(t)
  \/ \E t \in Tonics : ExtFinish(t)

SpecCat == CatInit /\ [][CatNext]_vars

\* ------------------------------------------------------------ C1 and C2
\* C1: on every catalyst the queue items are handed to _execute_sparkle in
\* the order they were put (the item in execution is the nrun-th put and
\* everything still queued was put later), a later item starts only after
\* the earlier one and its extra sparkles have ended, and at most one
\* handler of a catalyst is in execution at any time.
C1_FifoSerial ==
  \A c \in Ent :
    /\ Cardinality(active[c]) <= 1
    /\ pc[c] \in {"exec", "xexec", "dead"} => active[c] = {nrun[c]}
    /\ pc[c] \in {"none", "idle", "stopped"} => active[c] = {}
    /\ \A i \in 1..Len(catalyst_queue[c]) :
         /\ catalyst_queue[c][i].k > nrun[c]
         /\ \A j \in 1..Len(catalyst_queue[c]) :
              i < j => catalyst_queue[c][i].k < catalyst_queue[c][j].k

\* a sparkle put by user code waits in the queue behind another item while
\* an earlier item is in execution
C1_Witness ==
  \E c \in Ent :
    /\ pc[c] = "exec" /\ nrun[c] >= 3
    /\ Len(catalyst_queue[c]) >= 2
    /\ \E i \in 1..Len(catalyst_queue[c]) : catalyst_queue[c][i].name = "tts__h"

\* C2: the steps announced by to_state(X) -- on_exit when the machine was
\* active, the assignment of X, on_enter -- run in that order with no other
\* sparkle of the tonic in between, all of them before the catalyst is back
\* at its queue, and the state keeps its value while the calling handler
\* is still running.
C2_ToStateAtomic ==
  \A t \in Ent :
    /\ ~trace[t].bad
    /\ trace[t].own > 0 => state[t] = trace[t].st
    /\ (kind[t] # "essence" /\ catalyst[t] # None
          /\ pc[catalyst[t]] \in {"idle", "stopped"}) => trace[t].pend = <<>>

\* ------------------------------------------------------------ C3 .. C8
\* d's context chain leads to p in at most n steps
RECURSIVE Leads(_, _, _)
Leads(d, p, n) ==
  /\ n > 0
  /\ context[d] # None
  /\ (context[d] = p \/ Leads(context[d], p, n - 1))

\* C3: once p.finish() has been processed without an error, p and every
\* entity whose context chain leads to p have id == -1 and are in no slot
\* of the ledger.
C3_CascadeComplete ==
  (lastOp.op = "finish" /\ ~lastOp.raised) =>
    \A d \in made :
      (d = lastOp.a \/ Leads(d, lastOp.a, NEnt)) =>
        id[d] = -1 /\ ~InList(essences, d)

C5_ServiceUnique ==
  Cardinality({e \in made : service[e] = ServiceKey /\ id[e] >= 0}) <= 1

\* C6: a live entity whose context is a live entity p is listed by id in
\* p.bindings, however it was constructed.
C6_BindingBidirectional ==
  \A c \in made, p \in made :
    (context[c] = p /\ id[c] >= 0 /\ id[p] >= 0) =>
      InList(bindings[p], id[c])

\* the lowest index of an empty slot, the length of the list when all
\* slots are taken
LowestEmpty(ess) ==
  LET H == {i \in 1..Len(ess) : ess[i] = None} IN
  IF H = {} THEN Len(ess)
  ELSE (CHOOSE i \in H : \A j \in H : i <= j) - 1

\* C7: a newly registered entity receives the lowest id whose slot is empty
\* and the id one past the end only when no slot is empty.
C7_LowestHole ==
  [][\A e \in Ent :
       (e \notin made /\ e \in made') => id'[e] = LowestEmpty(essences)]_vars

\* a registration reused id 0 while a higher slot was empty as well
C7_Witness ==
  /\ lastOp.op \in {"create", "bind"}
  /\ id[lastOp.a] = 0
  /\ \E i \in 2..Len(essences) : essences[i] = None

\* C8: the ledger slots at the id of a live entity hold the entity and its
\* record, and an entity has id == -1 exactly when it has been finalized.
C8_SlotsHoldEntity ==
  \A e \in made :
    /\ id[e] >= 0 =>
         /\ id[e] < Len(essences)
         /\ essences[id[e] + 1] = e
         /\ records[id[e] + 1] = e
    /\ (id[e] = -1) <=> (finalized[e] > 0)

\* ------------------------------------------------------------------ store
\* Paths are Python strings; a string is the sequence of its characters.
Alphabet == <<"#", "/", "0", "1", "2", "3", "4", "5", "6", "7", "8", "9",
              "a", "b", "c">>

CharRank(ch) == CHOOSE i \in 1..Len(Alphabet) : Alphabet[i] = ch

RECURSIVE StrLess(_, _)
StrLess(p, q) ==
  IF q = <<>> THEN FALSE
  ELSE IF p = <<>> THEN TRUE
  ELSE IF Head(p) = Head(q) THEN StrLess(Tail(p), Tail(q))
  ELSE CharRank(Head(p)) < CharRank(Head(q))

\* iteration over a Python set of strings: the order is not defined by the
\* language; `ord` selects ascending (1) or descending order
RECURSIVE SetOrder(_, _)
SetOrder(S, ord) ==
  IF S = {} THEN <<>>
  ELSE LET m == CHOOSE x \in S : \A y \in S \ {x} :
                  IF ord = 1 THEN StrLess(x, y) ELSE StrLess(y, x)
       IN <<m>> \o SetOrder(S \ {m}, ord)

\* str.startswith
startswith(s, pre) ==
  Len(pre) <= Len(s) /\ SubSeq(s, 1, Len(pre)) = pre

RECURSIVE lstrip(_)
lstrip(s) ==
  IF s # <<>> /\ Head(s) = "/" THEN lstrip(Tail(s)) ELSE s

RECURSIVE rstrip(_)
rstrip(s) ==
  IF s # <<>> /\ s[Len(s)] = "/" THEN rstrip(SubSeq(s, 1, Len(s) - 1)) ELSE s

\* str.strip("/")
strip(s) == rstrip(lstrip(s))

\* "/" in s
HasSlash(s) == \E i \in 1..Len(s) : s[i] = "/"

\* s.rsplit("/", 1) for a string containing "/"
rsplit(s) ==
  LET i == CHOOSE k \in 1..Len(s) :
             s[k] = "/" /\ \A j \in (k + 1)..Len(s) : s[j] # "/"
  IN [head |-> SubSeq(s, 1, i - 1), tail |-> SubSeq(s, i + 1, Len(s))]

\* s.split("/")
RECURSIVE split(_)
split(s) ==
  IF ~HasSlash(s) THEN <<s>>
  ELSE LET i == CHOOSE k \in 1..Len(s) :
                  s[k] = "/" /\ \A j \in 1..(k - 1) : s[j] # "/"
       IN <<SubSeq(s, 1, i - 1)>> \o split(SubSeq(s, i + 1, Len(s)))

\* f"{a}/{b}"
join(a, b) == a \o <<"/">> \o b

\* the objects of the store as one record; `ord` is the iteration order of
\* Python sets during the running call, `lock` the number of times the
\* running thread holds self._lock (an RLock) at this point of the call
StoreWorld(ord) ==
  [storage |-> storage, subs |-> subscribers, loc |-> local,
   log |-> <<>>, ord |-> ord, lock |-> 0]

\* Store._ensure_node: the loop over the parts of the path
RECURSIVE EnsureParts(_, _, _, _)
EnsureParts(st, parts, i, current_path) ==
  IF i > Len(parts) THEN st
  ELSE
    LET part == parts[i]
        parent_path == current_path
        cur_path == IF i > 1 THEN join(current_path, part) ELSE part
        st1 == IF cur_path \in DOMAIN st THEN st
               ELSE LET a == st @@ (cur_path :> [val |-> None, children |-> {}])
                    IN IF parent_path \in DOMAIN a
                         THEN [a EXCEPT ![parent_path].children = @ \cup {part}]
                         ELSE a
    IN EnsureParts(st1, parts, i + 1, cur_path)

Store__ensure_node(st, path) == EnsureParts(st, split(path), 1, <<>>)

\* the while loop of _flush_notifications over one event path
RECURSIVE AncestorLoop(_)
AncestorLoop(path) ==
  IF HasSlash(path)
    THEN {rsplit(path).head} \cup AncestorLoop(rsplit(path).head)
    ELSE IF path # <<>> THEN {<<>>} ELSE {}

\* A plausible slip: only the event path and the root are looked up
relevant_noAncestors(events) ==
  {events[i].path : i \in 1..Len(events)} \cup {<<>>}

\* _flush_notifications, step 1: the paths whose subscribers are looked up
relevant_sub_paths(events) ==
  UNION {{events[i].path} \cup AncestorLoop(events[i].path) :
           i \in 1..Len(events)}


RECURSIVE Store_set_value(_, _, _, _, _)
RECURSIVE Store__queue_notification(_, _, _, _, _)
RECURSIVE Store__flush_notifications(_, _)
RECURSIVE DeliverPaths(_, _, _, _, _)
RECURSIVE DeliverEntries(_, _, _, _, _, _, _)
RECURSIVE Callback(_, _, _)
RECURSIVE Store__recursive_delete(_, _, _)
RECURSIVE DeleteChildren(_, _, _, _)

\* A plausible slip: the notify argument is not looked at
set_value_ignores_notify(s, t, path, value, notify) ==
  LET st1 == IF path \in DOMAIN s.storage THEN s.storage
             ELSE Store__ensure_node(s.storage, path)
      old_value == st1[path].val
      s1 == [s EXCEPT !.storage = [st1 EXCEPT ![path].val = value]]
  IN IF old_value # value
       THEN Store__queue_notification(s1, t, path, value, old_value)
       ELSE s1

\* Store.set_value
Store_set_value(s, t, path, value, notify) ==
  LET st1 == IF path \in DOMAIN s.storage THEN s.storage
             ELSE Store__ensure_node(s.storage, path)
      old_value == st1[path].val
      s1 == [s EXCEPT !.storage = [st1 EXCEPT ![path].val = value]]
  IN IF notify /\ old_value # value
       THEN Store__queue_notification(s1, t, path, value, old_value)
       ELSE s1

\* A plausible slip: the event is flushed at once, inside a group as well
queue_flush_always(s, t, path, new_val, old_val) ==
  IF ~s.loc[t].group_notify THEN s
  ELSE
    LET event == [path |-> path, new |-> new_val, old |-> old_val,
                  src |-> s.loc[t].current_source]
    IN Store__flush_notifications(
         [s EXCEPT !.loc[t].pending_changes = Append(@, event)], t)

\* A plausible slip: the batching fields are attributes of the store, shared
\* by all threads, instead of fields of a threading.local
queue_shared_batch(s, t, path, new_val, old_val) ==
  LET o == CHOOSE u \in DOMAIN s.loc : \A v \in DOMAIN s.loc : u <= v IN
  IF ~s.loc[o].group_notify THEN s
  ELSE
    LET event == [path |-> path, new |-> new_val, old |-> old_val,
                  src |-> s.loc[o].current_source]
        s1 == [s EXCEPT !.loc[o].pending_changes = Append(@, event)]
    IN IF s1.loc[o].batch_stack = 0
         THEN Store__flush_notifications(s1, o)
         ELSE s1

\* Store._queue_notification
Store__queue_notification(s, t, path, new_val, old_val) ==
  IF ~s.loc[t].group_notify THEN s
  ELSE
    LET event == [path |-> path, new |-> new_val, old |-> old_val,
                  src |-> s.loc[t].current_source]
        s1 == [s EXCEPT !.loc[t].pending_changes = Append(@, event)]
    IN IF s1.loc[t].batch_stack = 0
         THEN Store__flush_notifications(s1, t)
         ELSE s1

\* Store._flush_notifications; every run is recorded in `log` with its
\* thread, its batch, the subscriber table it found, and the callbacks
\* it made
Store__flush_notifications(s, t) ==
  IF s.loc[t].pending_changes = <<>> THEN s
  ELSE
    LET events == s.loc[t].pending_changes
        s1 == [s EXCEPT !.loc[t].pending_changes = <<>>]
        paths == SetOrder(relevant_sub_paths(events) \cap DOMAIN s1.subs,
                          s1.ord)
        relevant_entries ==
          [i \in 1..Len(paths) |->
             [path |-> paths[i], entries |-> s1.subs[paths[i]]]]
        s2 == [s1 EXCEPT !.log = Append(@, [t |-> t, batch |-> events,
                                            subs |-> s1.subs,
                                            calls |-> <<>>])]
    IN DeliverPaths(s2, t, events, relevant_entries, Len(s2.log))

\* step 3 of _flush_notifications: the loop over the relevant entries
DeliverPaths(s, t, events, rel, idx) ==
  IF rel = <<>> THEN s
  ELSE
    LET sub_path == Head(rel).path
        Match(e) == \/ e.path = sub_path
                    \/ startswith(e.path, sub_path \o <<"/">>)
        relevant_events == SelectSeq(events, Match)
        s1 == IF relevant_events # <<>>
                THEN DeliverEntries(s, t, sub_path, relevant_events,
                                    Head(rel).entries, 1, idx)
                ELSE s
    IN DeliverPaths(s1, t, events, Tail(rel), idx)

\* the loop over the entries of one subscribed path: filters A, B, C
DeliverEntries(s, t, sub_path, relevant_events, entries, i, idx) ==
  IF i > Len(entries) THEN s
  ELSE
    LET entry == entries[i]
        AtPath(e) == e.path = sub_path
        NotExcluded(e) ==
          ~\E x \in 1..Len(entry.exclude) :
              \/ e.path = entry.exclude[x]
              \/ startswith(e.path, entry.exclude[x] \o <<"/">>)
        NotIgnored(e) ==
          entry.ignore_source = NoSrc \/ e.src # entry.ignore_source
        a == IF ~entry.recursive THEN SelectSeq(relevant_events, AtPath)
             ELSE relevant_events
        b == IF entry.exclude # <<>> /\ a # <<>>
               THEN SelectSeq(a, NotExcluded) ELSE a
        filtered == SelectSeq(b, NotIgnored)
        s1 == IF filtered # <<>>
                THEN Callback(
                       [s EXCEPT !.log[idx].calls =
                          Append(@, [path |-> sub_path, i |-> i,
                                     evs |-> filtered,
                                     locked |-> s.lock > 0])],
                       t, entry.cb)
                ELSE s
    IN DeliverEntries(s1, t, sub_path, relevant_events, entries, i + 1, idx)

\* the listeners: "rec" only looks at the events, "derive" writes a value
\* derived from them to the node a/c (store.set_value('a/c', 1))
DerivedPath == <<"a", "/", "c">>

Callback(s, t, cb) ==
  IF cb = "derive" THEN Store_set_value(s, t, DerivedPath, 1, TRUE)
  ELSE s

\* A plausible slip: the subscriptions of a deleted node are kept
recursive_delete_keeps_subscribers(s, t, path) ==
  IF path \notin DOMAIN s.storage THEN s
  ELSE
    LET children == SetOrder(s.storage[path].children, s.ord)
        s1 == DeleteChildren(s, t, path, children)
    IN [s1 EXCEPT !.storage =
          [q \in DOMAIN s1.storage \ {path} |-> s1.storage[q]]]

\* Store._recursive_delete
Store__recursive_delete(s, t, path) ==
  IF path \notin DOMAIN s.storage THEN s
  ELSE
    LET children == SetOrder(s.storage[path].children, s.ord)
        s1 == DeleteChildren(s, t, path, children)
        s2 == IF path \in DOMAIN s1.subs
                THEN [s1 EXCEPT !.subs =
                        [q \in DOMAIN s1.subs \ {path} |-> s1.subs[q]]]
                ELSE s1
    IN [s2 EXCEPT !.storage =
          [q \in DOMAIN s2.storage \ {path} |-> s2.storage[q]]]

\* the loop of _recursive_delete over list(children)
DeleteChildren(s, t, path, children) ==
  IF children = <<>> THEN s
  ELSE
    LET child_path == join(path, Head(children))
        s1 == IF child_path \in DOMAIN s.storage
                THEN Store__queue_notification(
                       s, t, child_path, None, s.storage[child_path].val)
                ELSE s
    IN DeleteChildren(Store__recursive_delete(s1, t, child_path),
                      t, path, Tail(children))

\* Store.remove_item
Store_remove_item(s, t, path) ==
  LET clean_path == strip(path) IN
  IF clean_path = <<>> THEN [s EXCEPT !.storage[<<>>].val = None]
  ELSE IF clean_path \notin DOMAIN s.storage THEN s
  ELSE
    LET s0 == [s EXCEPT !.lock = @ + 1]   \* with self._lock:
        s1 == Store__queue_notification(s0, t, clean_path, None,
                                        s0.storage[clean_path].val)
        s2 == Store__recursive_delete(s1, t, clean_path)
        parent_path == IF HasSlash(clean_path) THEN rsplit(clean_path).head
                       ELSE <<>>
        child_key == IF HasSlash(clean_path) THEN rsplit(clean_path).tail
                     ELSE clean_path
    IN IF parent_path \in DOMAIN s2.storage
         THEN [s2 EXCEPT !.storage[parent_path].children = @ \ {child_key},
                         !.lock = @ - 1]
         ELSE [s2 EXCEPT !.lock = @ - 1]


\* int(match.group(1)) and the decimal formatting of an f-string
Digits == <<"0", "1", "2", "3", "4", "5", "6", "7", "8", "9">>

IsDigits(s) ==
  s # <<>> /\ \A i \in 1..Len(s) : \E d \in 1..10 : Digits[d] = s[i]

RECURSIVE ParseInt(_)
ParseInt(s) ==
  IF s = <<>> THEN 0
  ELSE 10 * ParseInt(SubSeq(s, 1, Len(s) - 1))
         + (CHOOSE d \in 0..9 : Digits[d + 1] = s[Len(s)])

RECURSIVE FormatInt(_)
FormatInt(n) ==
  IF n < 10 THEN <<Digits[n + 1]>>
  ELSE FormatInt(n \div 10) \o <<Digits[(n % 10) + 1]>>

\* A plausible slip: the new index is the number of children
list_item_key_count(children, prefix) ==
  prefix \o <<"#">> \o FormatInt(Cardinality(children))

\* create_list_item: the key of the new child among `children`; an empty
\* prefix is the prefix None
list_item_key(children, prefix) ==
  LET head == prefix \o <<"#">>
      Matching == {c \in children :
                     /\ startswith(c, head)
                     /\ IsDigits(SubSeq(c, Len(head) + 1, Len(c)))}
      Idx == {ParseInt(SubSeq(c, Len(head) + 1, Len(c))) : c \in Matching}
      max_idx == IF Idx = {} THEN -1
                 ELSE CHOOSE m \in Idx : \A n \in Idx : n <= m
  IN head \o FormatInt(max_idx + 1)

\* create_list_item: the path of the Item it returns
list_item_path(s, base_path, prefix) ==
  LET clean_path == strip(base_path)
      st1 == IF clean_path \in DOMAIN s.storage THEN s.storage
             ELSE Store__ensure_node(s.storage, clean_path)
      new_key == list_item_key(st1[clean_path].children, prefix)
  IN IF clean_path # <<>> THEN join(clean_path, new_key) ELSE new_key

\* Store.create_list_item
Store_create_list_item(s, t, base_path, prefix) ==
  LET clean_path == strip(base_path)
      st1 == IF clean_path \in DOMAIN s.storage THEN s.storage
             ELSE Store__ensure_node(s.storage, clean_path)
      new_path == list_item_path(s, base_path, prefix)
      s1 == Store_set_value([s EXCEPT !.storage = st1, !.lock = @ + 1],
                            t, new_path, None, TRUE)
  IN [s1 EXCEPT !.lock = @ - 1]

\* A plausible slip: the silence of the enclosing scopes is not inherited
group_enter_own_notify(l, source_id, notify) ==
  [l EXCEPT !.current_source = IF source_id # NoSrc THEN source_id ELSE @,
            !.group_notify = notify,
            !.batch_stack = @ + 1]

\* Store.group, up to the yield; the frame keeps what `finally` restores
Store_group_enter(l, source_id, notify) ==
  [l EXCEPT !.current_source = IF source_id # NoSrc THEN source_id ELSE @,
            !.group_notify = @ /\ notify,
            !.batch_stack = @ + 1]

\* `notify` is the argument the scope was opened with; `inner_silent` tells
\* that a scope nested in it, closed since, was opened with notify = False
\* or had such a scope nested in it
Frame(l, source_id, notify) ==
  [source_id |-> source_id, prev_src |-> l.current_source,
   prev_notify |-> l.group_notify, notify |-> notify,
   inner_silent |-> FALSE]

\* the open frames after the innermost one is closed
PopFrame(fs) ==
  LET f == fs[Len(fs)]
      rest == SubSeq(fs, 1, Len(fs) - 1)
  IN IF rest = <<>> THEN rest
     ELSE [rest EXCEPT ![Len(rest)].inner_silent =
             @ \/ ~f.notify \/ f.inner_silent]

\* Store.group, the `finally` block
Store_group_exit(s, t, f) ==
  LET s1 == [s EXCEPT !.loc[t].batch_stack = @ - 1]
      s2 == IF s1.loc[t].batch_stack = 0 /\ s1.loc[t].group_notify
              THEN Store__flush_notifications(s1, t)
              ELSE s1
  IN [s2 EXCEPT !.loc[t].current_source =
                   IF f.source_id # NoSrc THEN f.prev_src ELSE @,
                !.loc[t].group_notify = f.prev_notify]

\* Store.subscribe
Store_subscribe(subs, path, cb, ignore_source, recursive, exclude) ==
  LET clean_path == strip(path)
      entry == [cb |-> cb, ignore_source |-> ignore_source,
                recursive |-> recursive,
                exclude |-> [i \in 1..Len(exclude) |-> strip(exclude[i])]]
  IN IF clean_path \in DOMAIN subs
       THEN [subs EXCEPT ![clean_path] = Append(@, entry)]
       ELSE subs @@ (clean_path :> <<entry>>)

\* ------------------------------------------------- store specification
MaxDepth == 2     \* nesting of group() per thread
MaxGroups == 2    \* groups open at one time, over all threads
MaxSubs == 2      \* subscriptions made in a run
MaxPending == 2   \* no operation starts with this many events pending
MaxAppend == 1    \* list items under one node
MaxOps == 5       \* store operations issued in a run

WritePaths == {<<>>, <<"a">>, <<"a", "b">>, <<"a", "/", "b">>}
ListenPaths == {<<>>, <<"a">>, <<"a", "/", "b">>}
Sources == {NoSrc, "s1"}

\* the listeners of a run: [cb, ignore_source, recursive, exclude]
Listeners ==
  {<<"rec", NoSrc, TRUE, <<>> >>,
   <<"rec", "s1", TRUE, <<>> >>,
   <<"rec", NoSrc, TRUE, << <<"a", "/", "b">> >> >>,
   <<"rec", NoSrc, FALSE, <<>> >>,
   <<"derive", NoSrc, TRUE, <<>> >>}

StoreInit ==
  /\ ThreadsIdle
  /\ ServiceIdle
  /\ Holds(EmptyWorld([e \in Ent |-> "essence"]))
  /\ lastOp = [op |-> "init", a |-> None, again |-> FALSE, raised |-> FALSE,
              hooks |-> <<>>]
  /\ StoreNew
  /\ TimersIdle
  /\ heap = <<>>
  /\ rwlock = RWLock___init__

StoreCommit(s) ==
  /\ storage' = s.storage
  /\ subscribers' = s.subs
  /\ local' = s.loc
  /\ log' = s.log

NSubs == LET D == DOMAIN subscribers IN
  IF D = {} THEN 0
  ELSE LET RECURSIVE Sum(_)
           Sum(S) == IF S = {} THEN 0
                     ELSE LET p == CHOOSE p \in S : TRUE
                          IN Len(subscribers[p]) + Sum(S \ {p})
       IN Sum(D)

\* store.subscribe(path, cb, ...)
Subscribe(path, cb, ignore_source, recursive, exclude) ==
  /\ NSubs < MaxSubs
  /\ nops < MaxOps
  /\ nops' = nops + 1
  /\ subscribers' = Store_subscribe(subscribers, path, cb, ignore_source,
                                    recursive, exclude)
  /\ log' = <<>>
  /\ UNCHANGED <<storage, local, frames, appendVars, coreVars, timerVars, heap, rwlock>>

Room(t) ==
  /\ Len(local[t].pending_changes) < MaxPending
  /\ nops < MaxOps
  /\ nops' = nops + 1

\* store.set_value(path, value, notify) on thread t
SetValue(t, path, value, notify, ord) ==
  /\ Room(t)
  /\ StoreCommit(Store_set_value(StoreWorld(ord), t, path, value, notify))
  /\ UNCHANGED <<frames, appendVars, coreVars, timerVars, heap, rwlock>>

\* store.remove_item(path) on thread t
RemoveItem(t, path, ord) ==
  /\ Room(t)
  /\ StoreCommit(Store_remove_item(StoreWorld(ord), t, path))
  /\ UNCHANGED <<frames, appendVars, coreVars, timerVars, heap, rwlock>>

\* store.at(base).append() on thread t
AppendItem(t, base, ord) ==
  /\ Room(t)
  /\ base \in DOMAIN storage => Cardinality(storage[base].children) < MaxAppend
  /\ StoreCommit(Store_create_list_item(StoreWorld(ord), t, base, <<>>))
  /\ UNCHANGED <<frames, appendVars, coreVars, timerVars, heap, rwlock>>

OpenGroups ==
  LET RECURSIVE Sum(_)
      Sum(S) == IF S = {} THEN 0
                ELSE LET t == CHOOSE t \in S : TRUE
                     IN Len(frames[t]) + Sum(S \ {t})
  IN Sum(Threads)

\* thread t enters `with store.group(source_id, notify):`
GroupEnter(t, source_id, notify) ==
  /\ Len(frames[t]) < MaxDepth
  /\ OpenGroups < MaxGroups
  /\ nops < MaxOps
  /\ nops' = nops + 1
  /\ frames' = [frames EXCEPT ![t] = Append(@, Frame(local[t], source_id, notify))]
  /\ local' = [local EXCEPT ![t] = Store_group_enter(@, source_id, notify)]
  /\ log' = <<>>
  /\ UNCHANGED <<storage, subscribers, appendVars, coreVars, timerVars, heap, rwlock>>

\* thread t leaves the innermost group
GroupExit(t, ord) ==
  /\ frames[t] # <<>>
  /\ StoreCommit(Store_group_exit(StoreWorld(ord), t,
                                  frames[t][Len(frames[t])]))
  /\ frames' = [frames EXCEPT ![t] = PopFrame(@)]
  /\ UNCHANGED <<nops, appendVars, coreVars, timerVars, heap, rwlock>>

StoreNext ==
  \/ \E p \in ListenPaths, l \in Listeners :
        Subscribe(p, l[1], l[2], l[3], l[4])
  \/ \E t \in Threads, p \in WritePaths, n \in BOOLEAN, o \in {1, -1} :
        SetValue(t, p, 1, n, o)
  \/ \E t \in Threads, p \in WritePaths, o \in {1, -1} : RemoveItem(t, p, o)
  \/ \E t \in Threads, o \in {1, -1} : AppendItem(t, <<"a">>, o)
  \/ \E t \in Threads, src \in Sources, n \in BOOLEAN : GroupEnter(t, src, n)
  \/ \E t \in Threads, o \in {1, -1} : GroupExit(t, o)

SpecStore == StoreInit /\ [][StoreNext]_vars


\* ----------------------------------------------------------- C9 and C10
\* the ancestor paths of p: what precedes each "/" of p, and the root
AncestorsOf(p) ==
  {SubSeq(p, 1, k - 1) : k \in {i \in 1..Len(p) : p[i] = "/"}}
    \cup (IF p # <<>> THEN {<<>>} ELSE {})

\* C9: every ancestor path of every node present in the store, up to and
\* including the root path "", is present as well.
C9_AncestorClosure ==
  \A p \in DOMAIN storage : AncestorsOf(p) \subseteq DOMAIN storage

\* path p starts with P + "/"
IsUnder(p, P) ==
  /\ Len(p) > Len(P)
  /\ \A i \in 1..Len(P) : p[i] = P[i]
  /\ p[Len(P) + 1] = "/"

\* the events of batch a recursive listener `entry` at path P has to get
Wanted(batch, P, entry) ==
  LET Want(E) ==
        /\ E.path = P \/ IsUnder(E.path, P)
        /\ ~\E x \in 1..Len(entry.exclude) :
              E.path = entry.exclude[x] \/ IsUnder(E.path, entry.exclude[x])
        /\ entry.ignore_source = NoSrc \/ E.src # entry.ignore_source
  IN SelectSeq(batch, Want)

\* the callbacks a flush made to entry j of path P
CallsTo(f, P, j) ==
  LET Mine(c) == c.path = P /\ c.i = j IN SelectSeq(f.calls, Mine)

\* C10: in every flush, every recursive listener in the subscriber table
\* is called once with exactly the events of the batch at or under its
\* path that are neither at or under an exclude path nor from its ignored
\* source, in batch order, and is not called when there is no such event.
C10_FlushDelivery ==
  \A n \in 1..Len(log) :
    LET f == log[n] IN
    \A P \in DOMAIN f.subs :
      \A j \in 1..Len(f.subs[P]) :
        f.subs[P][j].recursive =>
          LET want == Wanted(f.batch, P, f.subs[P][j])
              got  == CallsTo(f, P, j)
          IN IF want = <<>> THEN got = <<>>
             ELSE Len(got) = 1 /\ got[1].evs = want

\* a flush of a batch of several events in which a recursive listener got
\* a remove event below its path and not the whole batch
C10_Witness ==
  \E n \in 1..Len(log) :
    LET f == log[n] IN
    /\ Len(f.batch) >= 2
    /\ \E k \in 1..Len(f.calls) :
         LET c == f.calls[k] IN
         /\ f.subs[c.path][c.i].recursive
         /\ Len(c.evs) < Len(f.batch)
         /\ \E m \in 1..Len(c.evs) :
              c.evs[m].new = None /\ IsUnder(c.evs[m].path, c.path)


\* ------------------------------------------------------------------ C11
\* a is a subsequence of b: its elements occur in b in the same order
RECURSIVE IsSubSeq(_, _)
IsSubSeq(a, b) ==
  IF a = <<>> THEN TRUE
  ELSE IF b = <<>> THEN FALSE
  ELSE IF Head(a) = Head(b) THEN IsSubSeq(Tail(a), Tail(b))
  ELSE IsSubSeq(a, Tail(b))

IsPrefix(a, b) == Len(a) <= Len(b) /\ SubSeq(b, 1, Len(a)) = a

\* C11: a thread that has a group scope open flushes nothing: whatever it
\* sets, appends or removes only extends its list of pending events, in
\* emission order; the exit of the outermost scope makes at most one flush
\* of those events, in which every subscriber entry is called at most once
\* and gets its events in the order they were emitted.
C11_GroupBatching ==
  /\ [](\A n \in 1..Len(log) : frames[log[n].t] = <<>>)
  /\ [][\A t \in Threads :
          /\ (frames[t] # <<>> /\ frames'[t] # <<>>) =>
                IsPrefix(local[t].pending_changes, local'[t].pending_changes)
          /\ (frames[t] # <<>> /\ frames'[t] = <<>> /\ log' # <<>>) =>
                /\ log'[1].t = t
                /\ log'[1].batch = local[t].pending_changes
                /\ \A k \in 2..Len(log') :
                     \A i \in 1..Len(log'[k].batch) :
                       \A j \in 1..Len(log'[1].batch) :
                         log'[k].batch[i] # log'[1].batch[j]
                /\ \A P \in DOMAIN log'[1].subs :
                     \A j \in 1..Len(log'[1].subs[P]) :
                       LET got == CallsTo(log'[1], P, j) IN
                       /\ Len(got) <= 1
                       /\ \A g \in 1..Len(got) :
                            IsSubSeq(got[g].evs, log'[1].batch)]_vars

\* a thread left its outermost scope and a listener got one call with two
\* events, at different paths, that the thread had made inside the scope
C11_Witness ==
  \E n \in 1..Len(log) :
    /\ frames[log[n].t] = <<>>
    /\ Len(log[n].batch) >= 2
    /\ log[n].batch[1].path # log[n].batch[2].path
    /\ \E k \in 1..Len(log[n].calls) : Len(log[n].calls[k].evs) >= 2


\* ---------------------------------------------------------- C12 and C13
\* C12: a handler that raises leaves the loop of its catalyst running, so
\* the sparkles queued behind it are still executed: no loop thread is ever
\* ended by an exception that left sparkle().
C12_LoopSurvivesRaise ==
  \A c \in Ent : pc[c] # "dead"

\* the sparkles of the framework and the user handlers that the finish
\* mode is said to let through
StillExecuted ==
  {"_ttss__finish", "_ttss__on_finished", "_ttss__on_start",
   "_ttss__on_binding_finished", "_ttss__bind_tonic_to_catalyst",
   "_ttss__remove_tonic_from_catalyst", "_ttss__main_catalyst_finished",
   "_ttinternal_state_change_to", "_ttinternal_state_machine_stop",
   "ttse__on_exit", "ttse__on_finished", "ttse__on_service_context_finished"}

\* C13: a handler that is in execution for a tonic whose finish request has
\* been processed is an internal system sparkle, on_exit, on_finished or
\* on_service_context_finished, never another user handler, wherever its
\* sparkle was enqueued.
C13_FinishingRunsSystemOnly ==
  \A c \in Ent :
    (pc[c] \in {"exec", "xexec"} /\ runs[c]
       /\ finishing[cur[c].inst] /\ exec_mode[cur[c].inst] = "system") =>
      /\ cur[c].name \in StillExecuted
      /\ cur[c].name \notin {"tts__h", "ttse__on_start", "ttse__on_enter"}

\* the loop handed a user sparkle of a finishing tonic to _execute_sparkle
\* and its handler was not run
C13_Witness ==
  \E c \in Ent :
    /\ pc[c] = "exec" /\ ~runs[c]
    /\ cur[c].name = "tts__h"
    /\ finishing[cur[c].inst] /\ exec_mode[cur[c].inst] = "system"


\* ------------------------------------------------------------------ C14
\* the running handler dispatches the state-aware sparkle s on tonic t;
\* the argument records the state t is in at that moment
UserDispatchState(c, t) ==
  /\ InUserHandler(c) /\ uputs < MaxPuts
  /\ Commit(put(World, catalyst[t], t, "tts__s", state[t]))
  /\ calls' = [calls EXCEPT ![c] = @ + 1]
  /\ uputs' = uputs + 1
  /\ UNCHANGED <<pc, cur, runs, impl, handler, nrun, active, trace,
                 svc_pc, svc_req, lastOp, storeVars, timerVars, heap, rwlock>>

\* a thread other than the catalyst's dispatches the state-aware sparkle
ExtDispatchState(t) ==
  /\ uputs < MaxPuts
  /\ Commit(put(World, catalyst[t], t, "tts__s", state[t]))
  /\ uputs' = uputs + 1
  /\ UNCHANGED <<pc, cur, runs, impl, handler, calls, nrun, active, trace,
                 svc_pc, svc_req, lastOp, storeVars, timerVars, heap, rwlock>>

\* the tonics are of a class with a state-aware sparkle: a method for at
\* least one state, with or without a generic method
DispInit ==
  \E sp \in (SUBSET (0..(NStates - 1))) \ {{}}, g \in BOOLEAN :
    CatStart([specific |-> sp, generic |-> g])

DispNext ==
  \/ \E c \in Ent : Take(c)
  \/ \E c \in Ent : Return(c)
  \/ \E c \in Ent, x \in 0..(NStates - 1) : UserToState(c, x)
  \/ \E c \in Ent, t \in Tonics : UserDispatchState(c, t)
  \/ \E t \in Tonics : ExtDispatchState(t)

SpecDisp == DispInit /\ [][DispNext]_vars

\* the method the claim names for a tonic of class im in state s
Expected(im, s) ==
  IF s >= 0 /\ s \in im.specific THEN [h |-> "state", st |-> s]
  ELSE IF im.generic THEN [h |-> "generic", st |-> -1]
  ELSE [h |-> "_noop", st |-> -1]

\* C14: the method a state-aware sparkle runs is chosen from the state the
\* tonic is in when the sparkle is executed: the method of that state when
\* the class has one, otherwise the generic method when the class has one,
\* otherwise nothing.
C14_DispatchByCurrentState ==
  \A c \in Ent :
    (pc[c] \in {"exec", "xexec"} /\ runs[c] /\ cur[c].name = "tts__s") =>
      handler[c] = Expected(impl[cur[c].inst], state[cur[c].inst])


\* ------------------------------------------------------------------ C15
\* C15: the construction that finds no service runs __init__ and the
\* post-init hook (once each) and then _init_service; a construction that
\* finds the service, whatever context it passes (an entity or none),
\* completes, builds nothing, runs _init_service only, and appends the
\* requesting context to the service's service_context.
C15_ServiceConstruction ==
  [][\A t \in Threads :
       (svc_pc[t] = "looked" /\ svc_pc'[t] = "idle") =>
         IF svc_req[t].existing = None
           THEN ~lastOp'.raised =>
                  lastOp'.hooks =
                    <<"__init__", "_init_post_action", "_init_service">>
           ELSE /\ ~lastOp'.raised
                /\ lastOp'.hooks = <<"_init_service">>
                /\ made' = made
                /\ service_context'[svc_req[t].existing] =
                     Append(service_context[svc_req[t].existing],
                            svc_req[t].c)]_vars


\* ------------------------------------------------------------------ C16
\* the live instances of the service
LiveServices == {s \in made : is_service[s] /\ id[s] >= 0}

\* C16: every context that constructs the service receives the one live
\* instance and is counted in its service_context (two distinct contexts:
\* length 2); when a context counted there finishes while others are still
\* counted, the service stays live with one entry less; when the last one
\* finishes, the service finishes (id -1).
C16_SharedService ==
  [][/\ \A t \in Threads :
          (/\ svc_pc[t] = "looked" /\ svc_pc'[t] = "idle"
           /\ svc_req[t].c # None /\ ~lastOp'.raised) =>
            \E s \in made' :
              /\ is_service'[s] /\ id'[s] >= 0
              /\ \A s2 \in made' : (is_service'[s2] /\ id'[s2] >= 0) => s2 = s
              /\ InList(service_context'[s], svc_req[t].c)
     /\ \A c \in made, s \in LiveServices :
          (/\ lastOp'.op = "finish" /\ lastOp'.a = c /\ ~lastOp'.again
           /\ ~finishing[s] /\ InList(service_context[s], c)) =>
            IF Len(service_context[s]) > 1
              THEN /\ id'[s] >= 0 /\ ~finishing'[s]
                   /\ Len(service_context'[s]) = Len(service_context[s]) - 1
              ELSE id'[s] = -1]_vars


\* ------------------------------------------------------------------ C17
\* ledger.unregister applied to the id i
Unregister(i) ==
  /\ \E w \in {ttLedger_unregister(World, i)} :
       Commit(w) /\ lastOp' = Op("unregister", i, FALSE, w)
  /\ UNCHANGED <<svc_pc, svc_req, threadVars, storeVars, timerVars, heap, rwlock>>

\* Entities created, finished, and ids unregistered directly
UnregNext ==
  \/ \E e \in Ent, c \in Ent \cup {None} : c \in made \cup {None} /\ Create(e, c)
  \/ \E e \in Ent : Finish(e)
  \/ \E i \in -1..NEnt : Unregister(i)

SpecUnreg == LedgerInit /\ [][UnregNext]_vars

\* C17: unregister(id) leaves the entity slot and the record slot of id
\* empty; on a slot that is already empty it returns without an error and
\* changes nothing; on an id outside the slots it fails.
C17_Unregister ==
  [][lastOp'.op = "unregister" =>
       IF lastOp'.a < 0 \/ lastOp'.a >= Len(essences)
         THEN lastOp'.raised /\ UNCHANGED <<essences, records>>
         ELSE /\ ~lastOp'.raised
              /\ essences'[lastOp'.a + 1] = None
              /\ records'[lastOp'.a + 1] = None
              /\ essences[lastOp'.a + 1] = None =>
                   UNCHANGED <<essences, records>>]_vars


\* ----------------------------------------------- list items and values
Values == {1, 2}
Prefixes == {<<>>, <<"b">>}
ListBase == <<"a">>

\* store.set(base + '/' + prefix + '#', v), first half (_smart_set_path):
\* cursor = cursor.append(prefix)
AppendCreate(t, prefix, ord) ==
  /\ Room(t)
  /\ ~cursor[t].on
  /\ \E np \in {list_item_path(StoreWorld(ord), ListBase, prefix)} :
       /\ cursor' = [cursor EXCEPT ![t] = [on |-> TRUE, path |-> np]]
       /\ appended' = Append(appended, [t |-> t, path |-> np, prefix |-> prefix,
                                        written |-> FALSE, val |-> None])
  /\ StoreCommit(Store_create_list_item(StoreWorld(ord), t, ListBase, prefix))
  /\ UNCHANGED <<frames, coreVars, timerVars, heap, rwlock>>

\* second half: cursor._store.set_value(cursor.path, value, notify)
AppendWrite(t, v, notify, ord) ==
  /\ Room(t)
  /\ cursor[t].on
  /\ StoreCommit(Store_set_value(StoreWorld(ord), t, cursor[t].path, v, notify))
  /\ cursor' = [cursor EXCEPT ![t] = NoCursor]
  /\ \E i \in 1..Len(appended) :
       /\ appended[i].t = t /\ ~appended[i].written
       /\ appended' = [appended EXCEPT ![i].written = TRUE, ![i].val = v]
  /\ UNCHANGED <<frames, coreVars, timerVars, heap, rwlock>>

\* values set and removed, inside and outside groups
RemoveNext ==
  \/ \E t \in Threads, p \in WritePaths, v \in Values, n \in BOOLEAN,
        o \in {1, -1} : SetValue(t, p, v, n, o)
  \/ \E t \in Threads, p \in WritePaths, o \in {1, -1} : RemoveItem(t, p, o)
  \/ \E t \in Threads, src \in Sources, n \in BOOLEAN : GroupEnter(t, src, n)
  \/ \E t \in Threads, o \in {1, -1} : GroupExit(t, o)

SpecRemove == StoreInit /\ [][RemoveNext]_vars

\* two threads appending to the list under ListBase, which also gets the
\* plain child b; inside and outside groups
AppendNext ==
  \/ \E t \in Threads, x \in Prefixes, o \in {1, -1} : AppendCreate(t, x, o)
  \/ \E t \in Threads, v \in Values, n \in BOOLEAN, o \in {1, -1} :
        AppendWrite(t, v, n, o)
  \/ \E t \in Threads, v \in Values, n \in BOOLEAN, o \in {1, -1} :
        SetValue(t, join(ListBase, <<"b">>), v, n, o)
  \/ \E t \in Threads, src \in Sources, n \in BOOLEAN : GroupEnter(t, src, n)
  \/ \E t \in Threads, o \in {1, -1} : GroupExit(t, o)

SpecAppend == StoreInit /\ [][AppendNext]_vars


\* ------------------------------------------------------------------ C18
\* the value stored at a path, None for a path without a node
OldVal(p) == IF p \in DOMAIN storage THEN storage[p].val ELSE None

\* the change event thread t makes for a write of new over old at path p
ChangeEvent(t, p, new, old) ==
  [path |-> p, new |-> new, old |-> old, src |-> local[t].current_source]

RECURSIVE FlatBatches(_)
FlatBatches(l) ==
  IF l = <<>> THEN <<>> ELSE Head(l).batch \o FlatBatches(Tail(l))

\* the events the step of thread t produced: those added to its pending
\* list inside a group, those flushed by the step outside one
Emitted(t) ==
  IF local[t].batch_stack > 0
    THEN SubSeq(local'[t].pending_changes,
                Len(local[t].pending_changes) + 1,
                Len(local'[t].pending_changes))
    ELSE FlatBatches(log')

\* store.set_value(path, value, notify) on thread t, the call recorded
SetOp(t, path, value, notify, ord) ==
  /\ Room(t)
  /\ StoreCommit(Store_set_value(StoreWorld(ord), t, path, value, notify))
  /\ lastOp' = [op |-> "set",
                a |-> [t |-> t, path |-> path, value |-> value,
                       notify |-> notify],
                again |-> FALSE, raised |-> FALSE, hooks |-> <<>>]
  /\ UNCHANGED <<frames, appendVars, essenceVars, queueVars, classVars,
                 threadVars, svc_pc, svc_req, timerVars, heap, rwlock>>

\* values set by two threads, inside and outside groups, with listeners
\* that write back
SetNext ==
  \/ Subscribe(<<"a">>, "derive", NoSrc, TRUE, <<>>)
  \/ \E t \in Threads, p \in WritePaths, v \in Values, n \in BOOLEAN,
        o \in {1, -1} : SetOp(t, p, v, n, o)
  \/ \E t \in Threads, src \in Sources, n \in BOOLEAN : GroupEnter(t, src, n)
  \/ \E t \in Threads, o \in {1, -1} : GroupExit(t, o)

NoSet == [t |-> 0, path |-> <<>>, value |-> None, notify |-> FALSE]

SetInit ==
  /\ ThreadsIdle
  /\ ServiceIdle
  /\ Holds(EmptyWorld([e \in Ent |-> "essence"]))
  /\ lastOp = [op |-> "init", a |-> NoSet, again |-> FALSE, raised |-> FALSE,
               hooks |-> <<>>]
  /\ StoreNew
  /\ TimersIdle
  /\ heap = <<>>
  /\ rwlock = RWLock___init__

SpecSet == SetInit /\ [][SetNext]_vars

\* the step is a set_value call; lastOp' holds its arguments
IsSetStep ==
  /\ lastOp'.op = "set" /\ nops' # nops
  /\ frames' = frames /\ subscribers' = subscribers

\* the events of the sequence evs that are at path p
EventsAt(evs, p) == LET At(e) == e.path = p IN SelectSeq(evs, At)

\* C18 (as stated): set(path, value, notify) leaves a node at the path and
\* at each of its ancestors, the value stored at the path, and produces the
\* one event (path, value, old) exactly when notify is true and the value
\* differs from the one stored before; otherwise it produces no event.
C18_SetAsStated ==
  [][IsSetStep =>
       LET c == lastOp'.a IN
       /\ \A q \in AncestorsOf(c.path) \cup {c.path} : q \in DOMAIN storage'
       /\ storage'[c.path].val = c.value
       /\ EventsAt(Emitted(c.t), c.path) =
            IF c.notify /\ c.value # OldVal(c.path)
              THEN <<ChangeEvent(c.t, c.path, c.value, OldVal(c.path))>>
              ELSE <<>>]_vars

\* C18 (amended): the same, the event being produced exactly when notify
\* is true, the value differs from the one stored before, and the thread is
\* not inside a group opened with notify = false.
C18_SetValue ==
  [][IsSetStep =>
       LET c == lastOp'.a IN
       /\ \A q \in AncestorsOf(c.path) \cup {c.path} : q \in DOMAIN storage'
       /\ storage'[c.path].val = c.value
       /\ EventsAt(Emitted(c.t), c.path) =
            IF c.notify /\ c.value # OldVal(c.path) /\ local[c.t].group_notify
              THEN <<ChangeEvent(c.t, c.path, c.value, OldVal(c.path))>>
              ELSE <<>>]_vars

\* a set of a/b to 2 over the stored 1 was flushed as the event (a/b, 2, 1)
\* and the nodes a and a/b exist
C18_Witness ==
  /\ log # <<>>
  /\ log[1].batch = << [path |-> <<"a", "/", "b">>, new |-> 2, old |-> 1,
                        src |-> NoSrc] >>
  /\ <<"a">> \in DOMAIN storage
  /\ storage[<<"a", "/", "b">>].val = 2


\* ------------------------------------------------------------------ C19
\* the nodes remove(p) takes away: p and what lies below it
Subtree(p) ==
  {q \in DOMAIN storage : q = p \/ startswith(q, p \o <<"/">>)}

\* C19: remove(path) of an existing node, by a thread that is not inside a
\* silenced group, deletes the node and its whole subtree, takes its key out
\* of the parent's children, and produces exactly one event (p, None, old)
\* for every removed node p whose value old was not None, and no event for
\* a removed node whose value was None.
C19_RemoveEvents ==
  [][\A t \in Threads, p \in WritePaths \ {<<>>}, o \in {1, -1} :
       (/\ p \in DOMAIN storage /\ local[t].group_notify
        /\ nops' # nops /\ DOMAIN storage' # DOMAIN storage
        /\ RemoveItem(t, p, o)) =>
         /\ DOMAIN storage' = DOMAIN storage \ Subtree(p)
         /\ \A q \in DOMAIN storage' :
              \A k \in storage'[q].children :
                join(q, k) # p /\ (q = <<>> => k # p)
         /\ \A q \in Subtree(p) :
              EventsAt(Emitted(t), q) =
                IF storage[q].val # None
                  THEN <<ChangeEvent(t, q, None, storage[q].val)>>
                  ELSE <<>>
         /\ \A i \in 1..Len(Emitted(t)) : Emitted(t)[i].path \in Subtree(p)]_vars


\* ------------------------------------------------------------------ C20
\* the path of the list item with index n and the given prefix
ItemPath(prefix, n) == join(ListBase, prefix \o <<"#">> \o FormatInt(n))

\* the indexes in use among the list items with the given prefix (a run
\* makes MaxOps operations, so no index exceeds MaxOps)
IndexesInUse(prefix) ==
  {n \in 0..MaxOps : ItemPath(prefix, n) \in DOMAIN storage}

\* the children of the list node that are list items
ListItems ==
  IF ListBase \in DOMAIN storage
    THEN {k \in storage[ListBase].children : \E i \in 1..Len(k) : k[i] = "#"}
    ELSE {}

\* C20: an append creates, with no value, the child whose index is one more
\* than the largest index in use among the children with its prefix (0 when
\* there is none); whatever the interleaving of the threads, the N appends
\* made so far have created N distinct children, the list has exactly those
\* N items, and each holds the value its creating thread wrote to it (none
\* before that write).
C20_Append ==
  /\ [](/\ Cardinality({appended[i].path : i \in 1..Len(appended)})
            = Len(appended)
        /\ Cardinality(ListItems) = Len(appended)
        /\ \A i \in 1..Len(appended) :
             /\ appended[i].path \in DOMAIN storage
             /\ storage[appended[i].path].val = appended[i].val)
  /\ [][Len(appended') = Len(appended) + 1 =>
          LET r == appended'[Len(appended')]
              used == IndexesInUse(r.prefix)
              k == IF used = {} THEN 0
                   ELSE 1 + CHOOSE m \in used : \A n \in used : n <= m
          IN /\ r.path = ItemPath(r.prefix, k)
             /\ r.path \notin DOMAIN storage
             /\ r.path \in DOMAIN storage'
             /\ storage'[r.path].val = None]_vars

\* two threads have each created an item of the same list and written
\* different values; the items are #0 and #1 and hold those values
C20_Witness ==
  \E i, j \in 1..Len(appended) :
    /\ appended[i].t # appended[j].t
    /\ appended[i].prefix = <<>> /\ appended[j].prefix = <<>>
    /\ appended[i].written /\ appended[j].written
    /\ appended[i].val = 1 /\ appended[j].val = 2
    /\ storage[ItemPath(<<>>, 0)].val # storage[ItemPath(<<>>, 1)].val
    /\ ListBase \o <<"/", "b">> \in DOMAIN storage


\* ------------------------------------------------------------------ C21
\* thread t is inside a scope that was opened with notify = False
InSilentScope(t) == \E i \in 1..Len(frames[t]) : ~frames[t][i].notify

\* the step makes no flush on thread t
NoFlushBy(t) == \A n \in 1..Len(log') : log'[n].t # t

\* C21 (as stated): an outermost scope in whose nesting a scope was opened
\* with notify = False (itself, or one nested in it at any time) delivers
\* nothing when it is left: neither the changes made inside the silent
\* scope nor those made in the enclosing scopes before or after it.
C21_WholeChainSilent ==
  [][\A t \in Threads :
       (/\ Len(frames[t]) = 1 /\ frames'[t] = <<>>
        /\ ~frames[t][1].notify \/ frames[t][1].inner_silent) =>
         NoFlushBy(t)]_vars

\* C21 (amended): while a thread is inside a scope opened with
\* notify = False, directly or in a scope nested in it, nothing it does
\* records or flushes an event: its pending list stays as it is and it
\* makes no flush, so no change made there reaches a listener.
C21_SilentScope ==
  [][\A t \in Threads :
       InSilentScope(t) =>
         /\ local'[t].pending_changes = local[t].pending_changes
         /\ NoFlushBy(t)]_vars

\* a thread opened a scope, set a (the event is pending), opened a scope
\* with notify = False inside it and set a/b to 2 with notify = True there:
\* a/b holds 2 and no event for it was recorded or flushed
C21_Witness ==
  \E t \in Threads :
    /\ nops = 4 /\ Len(frames[t]) = 2
    /\ frames[t][1].notify /\ ~frames[t][2].notify
    /\ lastOp.op = "set" /\ lastOp.a.t = t /\ lastOp.a.notify
    /\ lastOp.a.path = <<"a", "/", "b">> /\ lastOp.a.value = 2
    /\ storage[<<"a", "/", "b">>].val = 2
    /\ Len(local[t].pending_changes) = 1
    /\ local[t].pending_changes[1].path = <<"a">>
    /\ log = <<>>


\* ------------------------------------------------------------------ C22
\* The hello chain (examples/hello_world.py): ttse__on_start dispatches
\* tts__a, tts__a dispatches tts__b, tts__b dispatches tts__c and tts__c
\* calls self.finish().
HelloChain == <<"ttse__on_start", "tts__a", "tts__b", "tts__c">>

MaxExt == 2   \* calls other threads make on the hello tonics in a run

HelloCalls(name) ==
  CASE name = "ttse__on_start" -> "tts__a"
    [] name = "tts__a" -> "tts__b"
    [] name = "tts__b" -> "tts__c"
    [] OTHER -> "finish"

\* ttFormula.__init__: the main catalyst and n starting tonics of the
\* hello class, then main_catalyst.start_sparkling()
HelloWorld(n) ==
  LET w1 == ttTonic__init_post_action(
              ttTonic___init__(EmptyWorld(CatKinds), 1, None), 1)
      w2 == ttTonic__init_post_action(ttTonic___init__(w1, 2, None), 2)
      w3 == IF n = 1 THEN w2
            ELSE ttTonic__init_post_action(ttTonic___init__(w2, 3, None), 3)
  IN [w3 EXCEPT !.sparkling[1] = TRUE]

HelloInit ==
  /\ \E n \in 1..2 : Holds(HelloWorld(n))
  /\ ServiceIdle
  /\ StoreNew
  /\ TimersIdle
  /\ heap = <<>>
  /\ rwlock = RWLock___init__
  /\ lastOp = [op |-> "init", a |-> None, again |-> FALSE, raised |-> FALSE,
              hooks |-> <<>>]
  /\ pc = [c \in Ent |-> IF c = 1 THEN "idle" ELSE "none"]
  /\ cur = [c \in Ent |-> NoSparkle]
  /\ runs = [c \in Ent |-> FALSE]
  /\ impl = [e \in Ent |-> NoImpl]
  /\ handler = [c \in Ent |-> NoHandler]
  /\ calls = [c \in Ent |-> 0]
  /\ nrun = [c \in Ent |-> 0]
  /\ active = [c \in Ent |-> {}]
  /\ trace = [c \in Ent |-> NoTrace]
  /\ uputs = 0

\* a handler of the hello class is running on the thread of catalyst c
InHelloHandler(c) ==
  /\ pc[c] \in {"exec", "xexec"}
  /\ runs[c]
  /\ kind[cur[c].inst] = "tonic"
  /\ \E i \in 1..Len(HelloChain) : cur[c].name = HelloChain[i]

\* the one call the running hello handler makes
HelloCall(c) ==
  /\ InHelloHandler(c) /\ calls[c] = 0
  /\ LET t == cur[c].inst
         nx == HelloCalls(cur[c].name)
     IN IF nx = "finish"
          THEN Commit(call_finish(World, t, None))
          ELSE Commit(put(World, catalyst[t], t, nx, None))
  /\ calls' = [calls EXCEPT ![c] = 1]
  /\ UNCHANGED <<pc, cur, runs, impl, handler, nrun, active, trace, uputs,
                 svc_pc, svc_req, lastOp, storeVars, timerVars, heap, rwlock>>

\* the handler returns; a hello handler has made its call by then
HelloReturn(c) ==
  /\ InHelloHandler(c) => calls[c] = 1
  /\ Return(c)

\* a thread other than the catalyst's dispatches a sparkle of the chain
HelloExtDispatch(t, name) ==
  /\ t \in made /\ uputs < MaxExt
  /\ Commit(put(World, catalyst[t], t, name, None))
  /\ uputs' = uputs + 1
  /\ UNCHANGED <<pc, cur, runs, impl, handler, calls, nrun, active, trace,
                 svc_pc, svc_req, lastOp, storeVars, timerVars, heap, rwlock>>

\* a thread other than the catalyst's calls t.finish()
HelloExtFinish(t) ==
  /\ t \in made /\ uputs < MaxExt
  /\ ExtFinish(t)

HelloNext ==
  \/ \E c \in Ent : Take(c)
  \/ \E c \in Ent : HelloCall(c)
  \/ \E c \in Ent : HelloReturn(c)
  \/ \E t \in Tonics, name \in {"tts__a", "tts__b", "tts__c"} :
       HelloExtDispatch(t, name)
  \/ \E t \in Tonics : HelloExtFinish(t)

\* the loop thread of the main catalyst keeps running: a queue item that
\* can be taken is taken, a handler that was started makes its call and
\* returns
SpecHello ==
  /\ HelloInit /\ [][HelloNext]_vars
  /\ WF_vars(Take(1)) /\ WF_vars(HelloCall(1)) /\ WF_vars(HelloReturn(1))

LedgerEmpty == \A i \in 1..Len(essences) : essences[i] = None

Construct(w, e, c) ==
  IF w.kind[e] = "essence" THEN ttEssence___init__(w, e, c)
  ELSE ttTonic__init_post_action(ttTonic___init__(w, e, c), e)

\* ttFormula.__init__, lines 46-49: every object of ledger.essences[1:]
\* that has _ttss__main_catalyst_finished gets it dispatched
RECURSIVE NotifyCatalysts(_, _)
NotifyCatalysts(w, i) ==
  IF i > Len(w.ess) THEN w
  ELSE LET e == w.ess[i] IN
       NotifyCatalysts(
         IF e # None /\ w.kind[e] = "catalyst"
           THEN put(w, e, e, "_ttss__main_catalyst_finished", None)
           ELSE w,
         i + 1)

\* the classes of the objects the application creates
MainKinds ==
  {k \in [Ent -> {"essence", "tonic", "catalyst"}] : k[1] = "catalyst"}

\* ttFormula.__init__ after creating_main_catalyst(); lastOp.op is the value
\* of tasktonic/project/status, lastOp.a the catalysts that were registered
\* besides the main catalyst when its loop had returned
MainInit ==
  /\ \E k \in MainKinds :
       Holds(ttTonic__init_post_action(
               ttTonic___init__(EmptyWorld(k), 1, None), 1))
  /\ ThreadsIdle
  /\ ServiceIdle
  /\ StoreNew
  /\ TimersIdle
  /\ heap = <<>>
  /\ rwlock = RWLock___init__
  /\ lastOp = [op |-> "starting", a |-> {}, again |-> FALSE,
              raised |-> FALSE, hooks |-> <<>>]

\* a tonic can be constructed: its context has a catalyst, or ledger slot 0
\* holds one
HasCatalyst(c) ==
  \/ c # None /\ kind[c] # "essence"
  \/ /\ Len(essences) > 0 /\ essences[1] # None
     /\ kind[essences[1]] = "catalyst"

\* X(context=c) or c.bind(X), by creating_starting_tonics or later by any
\* thread.  ttCatalyst.__init__ calls start_sparkling() when its id > 0,
\* which starts the loop thread unless the status is still 'starting'.
MainCreate(e, c, bind) ==
  /\ Fresh(e)
  /\ c = None \/ (c \in made /\ id[c] >= 0)
  /\ bind => c # None
  /\ kind[e] = "tonic" => HasCatalyst(c)
  /\ \E w1 \in {Construct(World, e, c)} :
       LET started == /\ kind[e] = "catalyst" /\ w1.id[e] > 0
                      /\ lastOp.op # "starting"
           w2 == IF bind THEN [w1 EXCEPT !.bindings[c] = Append(@, w1.id[e])]
                 ELSE w1
       IN /\ Commit([w2 EXCEPT !.sparkling[e] = started])
          /\ pc' = [pc EXCEPT ![e] = IF started THEN "idle" ELSE "none"]
  /\ UNCHANGED <<cur, runs, impl, handler, calls, nrun, active, trace, uputs,
                 svc_pc, svc_req, lastOp, storeVars, timerVars, heap, rwlock>>

\* ttFormula.__init__, lines 36-43: the catalysts of essences[1:] get their
\* threads, then the main catalyst enters its loop on the main thread
MainStart ==
  /\ lastOp.op = "starting"
  /\ LET cats == {c \in made : kind[c] = "catalyst" /\ (id[c] > 0 \/ c = 1)}
     IN /\ pc' = [c \in Ent |-> IF c \in cats THEN "idle" ELSE pc[c]]
        /\ sparkling' = [c \in Ent |-> IF c \in cats THEN TRUE
                                      ELSE sparkling[c]]
  /\ lastOp' = [lastOp EXCEPT !.op = "main_running"]
  /\ UNCHANGED <<essenceVars, classVars, catalyst_queue, extra_sparkles,
                 tonics_sparkling, state, exec_mode, nput, cur, runs, impl,
                 handler, calls, nrun, active, trace, uputs, svc_pc, svc_req,
                 storeVars, timerVars, heap, rwlock>>

\* ttFormula.__init__, lines 44-49, after main_catalyst.start_sparkling()
\* has returned
MainFinished ==
  /\ lastOp.op = "main_running" /\ pc[1] = "stopped"
  /\ Commit(NotifyCatalysts(World, 2))
  /\ lastOp' = [lastOp EXCEPT
                  !.op = "main_finished",
                  !.a = {c \in made \ {1} :
                           kind[c] = "catalyst" /\ id[c] # -1}]
  /\ UNCHANGED <<threadVars, svc_pc, svc_req, storeVars, timerVars, heap, rwlock>>

\* a thread of the application calls e.finish()
MainExtFinish(e) ==
  /\ e \in made /\ uputs < MaxExt
  /\ lastOp.op # "starting"
  /\ ExtFinish(e)

MainNext ==
  \/ \E e \in Ent, c \in Ent \cup {None}, bind \in BOOLEAN :
       MainCreate(e, c, bind)
  \/ MainStart
  \/ \E c \in Ent : Take(c)
  \/ \E c \in Ent : Return(c)
  \/ \E e \in Ent : MainExtFinish(e)
  \/ MainFinished

\* every loop thread that was started keeps running, and the main thread
\* goes on after its loop has returned
SpecMain ==
  /\ MainInit /\ [][MainNext]_vars
  /\ \A c \in Ent : WF_vars(Take(c)) /\ WF_vars(Return(c))
  /\ WF_vars(MainFinished)

\* C23: when the loop of the main catalyst has returned, the main thread
\* puts _ttss__main_catalyst_finished on the queue of every other catalyst
\* that is registered at that moment, and each of these catalysts
\* eventually stops its loop, finalized.
C23_MainCatalystFinished ==
  /\ [][(lastOp.op = "main_running" /\ lastOp'.op = "main_finished") =>
          \A c \in lastOp'.a :
            /\ catalyst_queue'[c] # <<>>
            /\ catalyst_queue'[c][Len(catalyst_queue'[c])].name =
                 "_ttss__main_catalyst_finished"]_vars
  /\ \A c \in Ent \ {1} :
       (lastOp.op = "main_finished" /\ c \in lastOp.a) ~>
         (pc[c] = "stopped" /\ finalized[c] = 1)


\* ------------------------------------------------------------------ C24
\* ttTimer.py.  Times are whole seconds; -1 is the code's "not running".
MaxTime == 4          \* the clock stops there
Periods == {1, 2}     \* the periods timers are created with
TimerClasses == {"ttTimerSingleShot", "ttTimerRepeat", "ttTimerPausing"}

\* bisect.bisect_right with ttTimer.__lt__ (self.expire < other.expire)
RECURSIVE bisect_right(_, _, _, _, _)
bisect_right(a, x, lo, hi, T) ==
  IF lo >= hi THEN lo
  ELSE LET mid == (lo + hi) \div 2 IN
       IF T[x].expire < T[a[mid + 1]].expire
         THEN bisect_right(a, x, lo, mid, T)
         ELSE bisect_right(a, x, mid + 1, hi, T)

\* bisect.insort(self.catalyst.timers, self)
insort(a, x, T) ==
  LET i == bisect_right(a, x, 0, Len(a), T) IN
  SubSeq(a, 1, i) \o <<x>> \o SubSeq(a, i + 1, Len(a))

\* the timer state the methods work on: s.w is the world of the entities,
\* s.now the value time.time() returns
TimerWorld ==
  [w |-> World, tm |-> tm, timers |-> timers, fired |-> fired, now |-> clock]

\* ttTimer.start
ttTimer_start(s, t) ==
  IF s.w.id[t] = -1 \/ s.tm[t].expire # -1 THEN [s EXCEPT !.w = Raise(@)]
  ELSE LET T == [s.tm EXCEPT ![t].expire = s.now + s.tm[t].period]
           c == s.w.catalyst[t]
       IN [s EXCEPT !.tm = T, !.timers[c] = insort(@, t, T)]

\* ttTimer.restart: a timer that is not running is inserted with the
\* deadline -1 it has at that moment; the deadline is written afterwards
ttTimer_restart(s, t) ==
  IF s.w.id[t] = -1 THEN [s EXCEPT !.w = Raise(@)]
  ELSE LET c == s.w.catalyst[t]
           s1 == IF s.tm[t].expire = -1
                   THEN [s EXCEPT !.timers[c] = insort(@, t, s.tm)]
                   ELSE s
       IN [s1 EXCEPT !.tm[t].expire = s.now + s.tm[t].period]

\* ttTimer.stop
ttTimer_stop(s, t) ==
  LET c == s.w.catalyst[t] IN
  [s EXCEPT !.tm[t].expire = -1,
            !.timers[c] = IF InList(@, t) THEN ListRemove(@, t) ELSE @]

\* ttTimer._finished as reached from finish(): a timer has no bindings, so
\* ttEssence.finish runs _finished at once: stop(), then the base method
ttTimer_finish(s, t) ==
  IF s.w.finishing[t] THEN s
  ELSE LET s1 == ttTimer_stop(s, t) IN
       [s1 EXCEPT !.w = ttEssence_finish(s1.w, t, None)]

\* list.remove raises ValueError when the timer is not in the list
timers_remove(s, t) ==
  LET c == s.w.catalyst[t] IN
  IF InList(s.timers[c], t) THEN [s EXCEPT !.timers[c] = ListRemove(@, t)]
  ELSE [s EXCEPT !.w = Raise(@)]

\* reload_on_expire of the three classes
reload_on_expire(s, t) ==
  LET s1 == timers_remove(s, t)
      c == s.w.catalyst[t]
  IN IF s1.w.exc THEN s1
     ELSE IF s.tm[t].cls = "ttTimerSingleShot" THEN ttTimer_finish(s1, t)
     ELSE IF s.tm[t].cls = "ttTimerRepeat"
       THEN LET T == [s1.tm EXCEPT ![t].expire = @ + s.tm[t].period] IN
            [s1 EXCEPT !.tm = T, !.timers[c] = insort(@, t, T)]
     ELSE [s1 EXCEPT !.tm[t].paused_at = s.tm[t].expire,
                     !.tm[t].expire = @ + s.tm[t].period]

\* ttTimer.check_on_expiration; sparkle_back is the dispatcher of the
\* context's ttse__on_timer.  `expired` tells whether 0.0 is returned.
check_on_expiration(s, t, ref) ==
  IF ref >= s.tm[t].expire
    THEN LET s1 == reload_on_expire(s, t) IN
         IF s1.w.exc THEN [s |-> s1, expired |-> TRUE]
         ELSE [s |-> [s1 EXCEPT
                 !.w = put(@, s.w.catalyst[t], s.w.context[t],
                           "ttse__on_timer", s.w.id[t]),
                 !.fired = Append(@, [t |-> t, at |-> ref,
                                      due |-> s.tm[t].expire])],
               expired |-> TRUE]
    ELSE [s |-> s, expired |-> FALSE]

\* ttTimerPausing.pause
ttTimerPausing_pause(s, t) ==
  IF s.tm[t].paused_at # -1 THEN s
  ELSE timers_remove([s EXCEPT !.tm[t].paused_at = s.now], t)

\* ttTimerPausing.pause_ends
ttTimerPausing_pause_ends(s, t) ==
  IF s.tm[t].paused_at = -1 THEN s
  ELSE LET T == [s.tm EXCEPT ![t].expire = @ + s.now - s.tm[t].paused_at]
           c == s.w.catalyst[t]
       IN [s EXCEPT !.tm = T, !.timers[c] = insort(@, t, T)]

TimerCommit(s) ==
  /\ Commit(s.w)
  /\ tm' = s.tm
  /\ timers' = s.timers
  /\ fired' = s.fired

\* a catalyst whose class defines ttse__on_timer, with its loop running
TimerInit ==
  /\ Holds([ttTonic__init_post_action(
               ttTonic___init__(
                 EmptyWorld([e \in Ent |-> IF e = 1 THEN "catalyst"
                                           ELSE "essence"]), 1, None), 1)
             EXCEPT !.sparkling[1] = TRUE])
  /\ ServiceIdle
  /\ StoreNew
  /\ TimersIdle
  /\ heap = <<>>
  /\ rwlock = RWLock___init__
  /\ lastOp = [op |-> "init", a |-> None, again |-> FALSE, raised |-> FALSE,
              hooks |-> <<>>]
  /\ pc = [c \in Ent |-> IF c = 1 THEN "idle" ELSE "none"]
  /\ cur = [c \in Ent |-> NoSparkle]
  /\ runs = [c \in Ent |-> FALSE]
  /\ impl = [e \in Ent |-> NoImpl]
  /\ handler = [c \in Ent |-> NoHandler]
  /\ calls = [c \in Ent |-> 0]
  /\ nrun = [c \in Ent |-> 0]
  /\ active = [c \in Ent |-> {}]
  /\ trace = [c \in Ent |-> NoTrace]
  /\ uputs = 0

\* self.bind(cls, seconds=p) in a handler of the catalyst: ttTimer.__init__,
\* the period, start()
TimerCreate(e, cls, p) ==
  /\ Fresh(e)
  /\ LET w1 == ttEssence_bind_class(World, 1, e)
         s1 == [TimerWorld EXCEPT
                  !.w = [w1 EXCEPT !.catalyst[e] = w1.catalyst[1]],
                  !.tm[e] = [cls |-> cls, expire |-> -1, period |-> p,
                             paused_at |-> -1]]
     IN TimerCommit(ttTimer_start(s1, e))
  /\ UNCHANGED <<threadVars, svc_pc, svc_req, lastOp, storeVars, clock,
                 reference, heap, rwlock>>

\* time passes
Tick ==
  /\ clock < MaxTime
  /\ clock' = clock + 1
  /\ UNCHANGED <<coreVars, storeVars, reference, timers, tm, fired, heap, rwlock>>

\* ttCatalyst.sparkle, line 75: reference = time.time()
LoopTop(c) ==
  /\ pc[c] = "idle" /\ sparkling[c]
  /\ reference' = [reference EXCEPT ![c] = clock]
  /\ pc' = [pc EXCEPT ![c] = "timers"]
  /\ UNCHANGED <<essenceVars, queueVars, classVars, cur, runs, impl, handler,
                 calls, nrun, active, trace, uputs, svc_pc, svc_req, lastOp,
                 storeVars, clock, timers, tm, fired, heap, rwlock>>

\* ttCatalyst.sparkle, lines 77-78: one round of the inner loop; when the
\* result is not 0.0 the thread waits on the queue and comes back to line 75
CheckTimers(c) ==
  /\ pc[c] = "timers"
  /\ IF timers[c] = <<>>
       THEN /\ pc' = [pc EXCEPT ![c] = "idle"]
            /\ UNCHANGED <<essenceVars, queueVars, classVars, timers, tm,
                           fired>>
       ELSE \E r \in {check_on_expiration(TimerWorld, timers[c][1],
                                          reference[c])} :
              /\ TimerCommit(r.s)
              /\ pc' = [pc EXCEPT ![c] = IF r.s.w.exc THEN "dead"
                                         ELSE IF r.expired THEN "timers"
                                         ELSE "idle"]
  /\ UNCHANGED <<cur, runs, impl, handler, calls, nrun, active, trace, uputs,
                 svc_pc, svc_req, lastOp, storeVars, clock, reference, heap, rwlock>>

\* a handler calls restart(), stop(), pause() or pause_ends() on a timer
TimerCall(t, m) ==
  /\ t \in made /\ tm[t].cls # "" /\ uputs < MaxExt
  /\ m \in {"pause", "pause_ends"} => tm[t].cls = "ttTimerPausing"
  /\ TimerCommit(CASE m = "stop" -> ttTimer_stop(TimerWorld, t)
                   [] m = "restart" -> ttTimer_restart(TimerWorld, t)
                   [] m = "pause" -> ttTimerPausing_pause(TimerWorld, t)
                   [] OTHER -> ttTimerPausing_pause_ends(TimerWorld, t))
  /\ uputs' = uputs + 1
  /\ UNCHANGED <<pc, cur, runs, impl, handler, calls, nrun, active, trace,
                 svc_pc, svc_req, lastOp, storeVars, clock, reference, heap, rwlock>>

TimerNext ==
  \/ \E e \in Ent, cls \in TimerClasses, p \in Periods : TimerCreate(e, cls, p)
  \/ Tick
  \/ \E c \in Ent : LoopTop(c)
  \/ \E c \in Ent : CheckTimers(c)
  \/ \E t \in Ent, m \in {"restart", "stop", "pause", "pause_ends"} :
       TimerCall(t, m)

SpecTimer == TimerInit /\ [][TimerNext]_vars

\* the step made a timer fire
Fires == Len(fired') = Len(fired) + 1

FiresOf(t) == {n \in 1..Len(fired) : fired[n].t = t}

\* C24: when a timer fires, a one-shot timer is finished and out of the
\* timer list, and it fires once only; a repeating timer is back in the
\* list with deadline = previous deadline + period; a pausing timer is back
\* in the list with deadline = fire time + period.
C24_TimerFires ==
  /\ [][Fires =>
          LET f == fired'[Len(fired')]
              t == f.t
          IN CASE tm[t].cls = "ttTimerSingleShot" ->
                    /\ id'[t] = -1 /\ finalized'[t] = 1
                    /\ ~InList(timers'[1], t)
               [] tm[t].cls = "ttTimerRepeat" ->
                    /\ tm'[t].expire = f.due + tm[t].period
                    /\ InList(timers'[1], t)
               [] OTHER ->
                    /\ tm'[t].expire = f.at + tm[t].period
                    /\ InList(timers'[1], t)]_vars
  /\ [](\A t \in Ent : tm[t].cls = "ttTimerSingleShot" =>
                         Cardinality(FiresOf(t)) <= 1)


\* ------------------------------------------------------------------ C25
\* Arguments are Python objects on a heap, named by their address (the
\* index in `heap`): integers, functions, entities and lists of objects.
Obj(k, items, e) == [kind |-> k, items |-> items, ent |-> e]

\* the objects the application holds when it starts dispatching
InitHeap ==
  <<Obj("int", <<>>, None), Obj("func", <<>>, None), Obj("essence", <<>>, 2),
    Obj("list", <<1>>, None), Obj("list", <<4, 3, 2>>, None)>>

MemoGet(memo, x) == (CHOOSE m \in memo : m[1] = x)[2]

\* A plausible slip: copy.copy instead of copy.deepcopy
copy_copy(h, memo, x) ==
  IF h[x].kind # "list" THEN [h |-> h, memo |-> memo, r |-> x]
  ELSE [h |-> Append(h, h[x]), memo |-> memo, r |-> Len(h) + 1]

\* copy.deepcopy(x, memo): integers and functions are atomic, a ttEssence
\* is its own copy (ttEssence.__deepcopy__ returns self), a list is rebuilt
\* item by item
RECURSIVE deepcopy(_, _, _)
RECURSIVE deepcopy_list(_, _, _, _, _)
deepcopy(h, memo, x) ==
  IF \E m \in memo : m[1] = x
    THEN [h |-> h, memo |-> memo, r |-> MemoGet(memo, x)]
  ELSE IF h[x].kind # "list" THEN [h |-> h, memo |-> memo, r |-> x]
  ELSE LET y == Len(h) + 1 IN
       deepcopy_list(Append(h, Obj("list", <<>>, None)),
                     memo \cup {<<x, y>>}, x, y, 1)

deepcopy_list(h, memo, x, y, i) ==
  IF i > Len(h[x].items) THEN [h |-> h, memo |-> memo, r |-> y]
  ELSE LET c == deepcopy(h, memo, h[x].items[i]) IN
       deepcopy_list([c.h EXCEPT ![y].items = Append(@, c.r)], c.memo,
                     x, y, i + 1)

\* callable(arg)
callable(o) == o.kind = "func"

\* catalyst.thread_id: -1 until sparkle() runs, then the loop thread, which
\* is named after its catalyst
thread_id(c) == IF pc[c] = "none" THEN -1 ELSE c

\* put_sparkle / put_state_sparkle with one positional argument, called on
\* thread `caller`
put_sparkle(w, h, caller, t, name, a) ==
  LET cp == IF caller # thread_id(w.catalyst[t]) /\ ~callable(h[a])
              THEN deepcopy(h, {}, a)
              ELSE [h |-> h, memo |-> {}, r |-> a]
  IN [w |-> put(w, w.catalyst[t], t, name, cp.r), h |-> cp.h, arg |-> cp.r]

NoDispatch == [caller |-> None, t |-> None, passed |-> 0, queued |-> 0]

\* the main catalyst in its loop and one tonic with the handler tts__h
ArgInit ==
  /\ Holds(HelloWorld(1))
  /\ ServiceIdle
  /\ StoreNew
  /\ TimersIdle
  /\ heap = InitHeap
  /\ rwlock = RWLock___init__
  /\ lastOp = [op |-> "init", a |-> NoDispatch, again |-> FALSE,
              raised |-> FALSE, hooks |-> <<>>]
  /\ pc = [c \in Ent |-> IF c = 1 THEN "idle" ELSE "none"]
  /\ cur = [c \in Ent |-> NoSparkle]
  /\ runs = [c \in Ent |-> FALSE]
  /\ impl = [e \in Ent |-> NoImpl]
  /\ handler = [c \in Ent |-> NoHandler]
  /\ calls = [c \in Ent |-> 0]
  /\ nrun = [c \in Ent |-> 0]
  /\ active = [c \in Ent |-> {}]
  /\ trace = [c \in Ent |-> NoTrace]
  /\ uputs = 0

\* t.tts__h(a) called on thread `caller`: the loop thread of a catalyst,
\* inside a handler, or (None) a thread of the application
ArgDispatch(caller, t, a) ==
  /\ t \in made /\ kind[t] = "tonic" /\ a \in DOMAIN heap
  /\ uputs < MaxExt
  /\ caller # None => InUserHandler(caller)
  /\ \E r \in {put_sparkle(World, heap, caller, t, "tts__h", a)} :
       /\ Commit(r.w)
       /\ heap' = r.h
       /\ lastOp' = [op |-> "dispatch",
                     a |-> [caller |-> caller, t |-> t, passed |-> a,
                            queued |-> r.arg],
                     again |-> FALSE, raised |-> FALSE, hooks |-> <<>>]
  /\ uputs' = uputs + 1
  /\ UNCHANGED <<pc, cur, runs, impl, handler, calls, nrun, active, trace,
                 svc_pc, svc_req, storeVars, timerVars, rwlock>>

\* the handler tts__h(self, arg) appends to the list it was given
HandlerAppend(c) ==
  /\ InUserHandler(c) /\ cur[c].name = "tts__h" /\ calls[c] = 0
  /\ heap[cur[c].arg].kind = "list"
  /\ heap' = [heap EXCEPT ![cur[c].arg].items = Append(@, 1)]
  /\ calls' = [calls EXCEPT ![c] = 1]
  /\ lastOp' = [lastOp EXCEPT !.op = "append"]
  /\ UNCHANGED <<essenceVars, queueVars, classVars, pc, cur, runs, impl,
                 handler, nrun, active, trace, uputs, svc_pc, svc_req,
                 storeVars, timerVars, rwlock>>

\* Take and Return leave lastOp as it is; the step after a dispatch is told
\* apart by uputs
ArgNext ==
  \/ \E c \in Ent : Take(c)
  \/ \E c \in Ent : Return(c)
  \/ \E caller \in Ent \cup {None}, t \in Ent, a \in 1..(2 * Len(InitHeap)) :
       ArgDispatch(caller, t, a)
  \/ \E c \in Ent : HandlerAppend(c)

SpecArg == ArgInit /\ [][ArgNext]_vars

\* the step is a dispatch made on a thread other than the catalyst's
CrossThreadDispatch ==
  /\ uputs' = uputs + 1
  /\ lastOp'.a.caller # thread_id(catalyst[lastOp'.a.t])

\* q is a copy of p in which every list (Fresh = {"list"}), or every list
\* and every entity (Fresh = {"list", "essence"}), is a new object
RECURSIVE CopyOf(_, _, _, _, _)
CopyOf(h, old, p, q, FreshKinds) ==
  /\ h[q].kind = h[p].kind
  /\ IF h[p].kind \in FreshKinds THEN q \notin old ELSE q = p
  /\ h[p].kind = "list" =>
       /\ Len(h[q].items) = Len(h[p].items)
       /\ \A i \in 1..Len(h[p].items) :
            CopyOf(h, old, h[p].items[i], h[q].items[i], FreshKinds)

\* C25 as stated: on a dispatch from a thread other than the catalyst's, a
\* callable argument is enqueued as it is, and of any other argument a deep
\* copy is enqueued, one that shares no list and no entity with the
\* caller's object.
C25_AllDeepCopied ==
  [][CrossThreadDispatch =>
       LET d == lastOp'.a IN
       IF callable(heap[d.passed]) THEN d.queued = d.passed
       ELSE CopyOf(heap', DOMAIN heap, d.passed, d.queued,
                   {"list", "essence"})]_vars

\* C25: on a dispatch from a thread other than the catalyst's, a callable
\* argument is enqueued as it is; of any other argument the result of
\* copy.deepcopy is enqueued: every list in it is a new object, every
\* entity in it (also the argument itself) is the caller's entity, and the
\* caller's objects are left as they were.
C25_CrossThreadCopy ==
  [][CrossThreadDispatch =>
       LET d == lastOp'.a IN
       /\ \A a \in DOMAIN heap : heap'[a] = heap[a]
       /\ IF callable(heap[d.passed]) THEN d.queued = d.passed
          ELSE CopyOf(heap', DOMAIN heap, d.passed, d.queued, {"list"})]_vars

C25_Witness ==
  /\ lastOp.op = "dispatch" /\ lastOp.a.caller = None
  /\ lastOp.a.passed = 5 /\ lastOp.a.queued = 6
  /\ heap[6].items = <<7, 3, 2>> /\ heap[7].items = <<1>>
  /\ heap[5].items = <<4, 3, 2>>
  /\ catalyst_queue[1][Len(catalyst_queue[1])].arg = 6


\* ------------------------------------------------------------------ C26
\* the name each object is constructed with (ttEssence(name=...)); "Z" is
\* the name of no object
NameOf == [e \in Ent |-> IF e = 3 THEN "B" ELSE "A"]
Names == {"A", "B", "Z"}

\* `for record in self.records: if record['name'] == name`: subscripting a
\* None record raises TypeError.  A record keeps the id of its slot.
RECURSIVE FindRecord(_, _, _)
FindRecord(w, name, i) ==
  IF i > Len(w.rec) THEN [found |-> FALSE, slot |-> 0, exc |-> FALSE]
  ELSE IF w.rec[i] = None THEN [found |-> FALSE, slot |-> 0, exc |-> TRUE]
  ELSE IF NameOf[w.rec[i]] = name
    THEN [found |-> TRUE, slot |-> i, exc |-> FALSE]
    ELSE FindRecord(w, name, i + 1)

\* ttLedger.get_id_by_name
ttLedger_get_id_by_name(w, name) ==
  LET f == FindRecord(w, name, 1) IN
  [r |-> IF f.exc THEN None ELSE IF f.found THEN f.slot - 1 ELSE -1,
   exc |-> f.exc]

\* ttLedger.get_essence_by_name
ttLedger_get_essence_by_name(w, name) ==
  LET f == FindRecord(w, name, 1) IN
  [r |-> IF f.found THEN w.ess[f.slot] ELSE None, exc |-> f.exc]

\* the three lookups; `res` is the value returned
Lookup(m, name, i) ==
  /\ LET r == CASE m = "get_id_by_name" ->
                     ttLedger_get_id_by_name(World, name)
                [] m = "get_essence_by_name" ->
                     ttLedger_get_essence_by_name(World, name)
                [] OTHER ->
                     LET x == ttLedger_get_essence_by_id(World, i) IN
                     [r |-> IF x = IndexErr THEN None ELSE x,
                      exc |-> x = IndexErr]
     IN lastOp' = [op |-> m, a |-> i, again |-> FALSE, raised |-> r.exc,
                   hooks |-> <<name>>, res |-> r.r]
  /\ UNCHANGED <<essenceVars, queueVars, classVars, threadVars, svc_pc,
                 svc_req, storeVars, timerVars, heap, rwlock>>

LookupNext ==
  \/ \E e \in Ent : Create(e, None)
  \/ \E p \in Ent, e \in Ent : BindClass(p, e)
  \/ \E e \in Ent : Finish(e)
  \/ \E m \in {"get_id_by_name", "get_essence_by_name"}, name \in Names :
       Lookup(m, name, 0)
  \/ \E i \in 0..NEnt : Lookup("get_essence_by_id", "", i)

SpecLookup == LedgerInit /\ [][LookupNext]_vars

\* the registered entities with the name
LiveNamed(name) ==
  {e \in made : id[e] >= 0 /\ essences[id[e] + 1] = e /\ NameOf[e] = name}

\* C26: in every ledger state reached by registering and unregistering,
\* no lookup raises; get_id_by_name returns the id of a registered entity
\* with the name, or -1 when there is none; get_essence_by_name returns
\* such an entity or None; get_essence_by_id returns the entity of the
\* slot or None.
C26_Lookups ==
  /\ lastOp.op = "get_id_by_name" =>
       /\ ~lastOp.raised
       /\ IF LiveNamed(lastOp.hooks[1]) = {} THEN lastOp.res = -1
          ELSE \E e \in LiveNamed(lastOp.hooks[1]) : lastOp.res = id[e]
  /\ lastOp.op = "get_essence_by_name" =>
       /\ ~lastOp.raised
       /\ IF LiveNamed(lastOp.hooks[1]) = {} THEN lastOp.res = None
          ELSE lastOp.res \in LiveNamed(lastOp.hooks[1])
  /\ lastOp.op = "get_essence_by_id" =>
       /\ ~lastOp.raised
       /\ IF \E e \in made : id[e] = lastOp.a
            THEN id[lastOp.res] = lastOp.a
            ELSE lastOp.res = None


\* ------------------------------------------------------------------ C27
\* the entities whose finishing flag is raised by the step
AskedToFinish == {f \in made : ~finishing[f] /\ finishing'[f]}

\* the step ends the _ttss__on_finished handler of a tonic on catalyst c:
\* ttEssence._finish asks each id in the tonic's bindings to finish
CascadeOf(c) ==
  /\ pc[c] \in {"exec", "xexec"} /\ runs[c]
  /\ cur[c].name = "_ttss__on_finished"
  /\ pc'[c] # pc[c] \/ cur'[c] # cur[c]

\* C27: a registration never returns an id that is listed in the bindings
\* of a live entity, and when a finishing tonic asks each id in its
\* bindings to finish, only entities below it become finishing (entities
\* whose context is the tonic or an entity that is finishing with it).
C27_NoStaleReuse ==
  [][/\ \A e \in Ent :
          (e \notin made /\ e \in made') =>
            ~\E p \in made : id[p] >= 0 /\ InList(bindings[p], id'[e])
     /\ \A c \in Ent : CascadeOf(c) =>
          \A f \in AskedToFinish :
            context[f] # None /\ finishing'[context[f]]]_vars

\* ------------------------------------------------------------------ C28
\* c is registered before / after the step
Live(c) ==
  /\ c \in made /\ id[c] >= 0 /\ id[c] < Len(essences)
  /\ essences[id[c] + 1] = c

LiveAfter(c) ==
  /\ c \in made' /\ id'[c] >= 0 /\ id'[c] < Len(essences')
  /\ essences'[id'[c] + 1] = c

\* c is a child of p that p's finish asks to finish and that has no other
\* holder: its id is in p.bindings, its context is p, and if it is a
\* service p is the only entry of its service_context
BoundOnlyTo(c, p) ==
  /\ Live(c) /\ context[c] = p /\ InList(bindings[p], id[c])
  /\ \A n \in 1..Len(service_context[c]) : service_context[c][n] = p

\* C28: in a step that finalizes an entity p (its _finished runs), p's
\* bindings list ends empty and every child that was bound to p alone is
\* finalized as well: no parent is finalized while such a child is left
\* registered.
C28_ParentAfterChildren ==
  [][\A p \in made :
       finalized'[p] > finalized[p] =>
         /\ bindings'[p] = <<>>
         /\ \A c \in made : BoundOnlyTo(c, p) => ~LiveAfter(c)]_vars


\* ------------------------------------------------------------------ C29
\* Svc(context=c) or c.bind(Svc) by a single thread: the metaclass looks
\* the service up and constructs or reuses it in one go
ServiceCall(c, via) ==
  /\ c = None \/ (c \in made /\ ~is_service[c])
  /\ via = "bind" => c # None /\ Len(bindings[c]) < MaxBindings
  /\ \A s \in made : Len(service_context[s]) < MaxHolders
  /\ \E ex \in {ttLedger_get_service_essence(World, ServiceKey)} :
     \E e \in Ent \cup {None} :
       /\ IF ex = None THEN e # None /\ Fresh(e) ELSE e = None
       /\ \E w \in {ttEssenceMeta_call_service(World, ex, e, c, via)} :
            Commit(w) /\ lastOp' = Op("service", c, FALSE, w)
  /\ UNCHANGED <<svc_pc, svc_req, threadVars, storeVars, timerVars, heap, rwlock>>

\* entities and one service, requested and finished in any order
SharedNext ==
  \/ \E e \in Ent : Create(e, None)
  \/ \E c \in Ent \cup {None}, via \in {"direct", "bind"} : ServiceCall(c, via)
  \/ \E e \in Ent : Finish(e)

SpecShared == LedgerInit /\ [][SharedNext]_vars

\* C29: a step in which finish() of another entity finalizes a service
\* leaves the service's service_context empty and finds the service's own
\* context, if it has one, finishing: a service with a holder left is not
\* finalized, also when the finish is that of the context that created it.
C29_ServiceOutlivesCreator ==
  [][\A s \in made :
       (/\ is_service[s] /\ finalized'[s] > finalized[s]
        /\ lastOp'.op = "finish" /\ lastOp'.a # s) =>
         /\ service_context'[s] = <<>>
         /\ context[s] # None => finishing'[context[s]]]_vars

\* ------------------------------------------------------------------ C30
\* C30: while a state-aware sparkle is executed, a method written for one
\* state is the running method only if the tonic is in that state, and
\* with no state active (state = -1) the running method is the generic
\* method when the class has one and otherwise the no-op.
C30_StateHandlerOnlyInState ==
  \A c \in Ent :
    (pc[c] \in {"exec", "xexec"} /\ runs[c] /\ cur[c].name = "tts__s") =>
      /\ handler[c].h = "state" => handler[c].st = state[cur[c].inst]
      /\ state[cur[c].inst] = -1 =>
           handler[c].h = IF impl[cur[c].inst].generic THEN "generic"
                          ELSE "_noop"


\* ------------------------------------------------------------------ C31
\* C31: no listener is called at a point where the calling thread holds
\* the store's lock: every callback made by the last operation (set,
\* append, remove, group exit) was made with the lock released.
C31_CallbacksOutsideLock ==
  \A n \in 1..Len(log) :
    \A k \in 1..Len(log[n].calls) : ~log[n].calls[k].locked


\* ------------------------------------------------------------------ C32
\* C32: the batching state is per thread.  A set that changes a value, made
\* by a thread with no group open while another thread has one open, is
\* flushed at once by the setting thread as a batch of that one event, and
\* leaves the other threads' batching state as it was; the exit of a
\* thread's outermost group makes flushes of that thread only, the first
\* one of exactly the events pending on that thread, and leaves the other
\* threads' batching state as it was.
C32_PerThreadBatches ==
  [][/\ IsSetStep =>
          LET c == lastOp'.a IN
          (/\ frames[c.t] = <<>>
           /\ \E u \in Threads \ {c.t} : frames[u] # <<>>
           /\ c.notify /\ c.value # OldVal(c.path)) =>
            /\ log' # <<>>
            /\ log'[1].t = c.t
            /\ log'[1].batch =
                 <<ChangeEvent(c.t, c.path, c.value, OldVal(c.path))>>
            /\ local'[c.t].pending_changes = <<>>
            /\ \A u \in Threads \ {c.t} : local'[u] = local[u]
     /\ \A t \in Threads :
          (frames[t] # <<>> /\ frames'[t] = <<>>) =>
            /\ \A n \in 1..Len(log') : log'[n].t = t
            /\ log' # <<>> => log'[1].batch = local[t].pending_changes
            /\ \A u \in Threads \ {t} : local'[u] = local[u]]_vars

\* thread 2, with no group open, set a value and flushed the event while
\* thread 1 was inside a group with an event of its own pending
C32_Witness ==
  /\ lastOp.op = "set" /\ lastOp.a.t = 2
  /\ frames[2] = <<>> /\ frames[1] # <<>>
  /\ local[1].pending_changes # <<>>
  /\ log # <<>> /\ log[1].t = 2
  /\ log[1].batch[1].path = lastOp.a.path
  /\ log[1].batch[1].new = lastOp.a.value


\* ------------------------------------------------------------------ C33
\* C33: the timer list of every catalyst is sorted by deadline in every
\* state, that is after every timer operation and every firing; and the
\* round of the loop that finds the first timer not yet due leaves no
\* timer in the list whose deadline has passed.
C33_TimersSorted ==
  /\ [](\A c \in Ent : \A i \in 1..(Len(timers[c]) - 1) :
          tm[timers[c][i]].expire <= tm[timers[c][i + 1]].expire)
  /\ [][\A c \in Ent :
          (pc[c] = "timers" /\ pc'[c] = "idle") =>
            \A i \in 1..Len(timers'[c]) :
              tm'[timers'[c][i]].expire > reference[c]]_vars


\* ------------------------------------------------------------------ C34
\* ttFormula.__init__ with one starting tonic; the loop of the main
\* catalyst has been entered and no other thread has called anything yet
CrossInit ==
  /\ HelloInit
  /\ made = {1, 2}

\* a thread other than the owning catalyst's calls a method of tonic t:
\* t.tts__h(), t.finish(), t.to_state(x) or t.bind(<tonic class>); lastOp.a
\* numbers the calls of such threads
CrossCall(m, t, x) ==
  /\ t \in made /\ uputs < MaxPuts
  /\ \E w \in {CASE m = "dispatch" ->
                      put(World, catalyst[t], t, "tts__h", None)
                 [] m = "finish" -> call_finish(World, t, None)
                 [] m = "to_state" -> ttTonic_to_state(World, t, x)
                 [] OTHER ->
                      IF \E e \in Ent : Fresh(e)
                        THEN LET e == CHOOSE f \in Ent : Fresh(f)
                                 w1 == Construct(World, e, t)
                             IN [w1 EXCEPT
                                   !.bindings[t] = Append(@, w1.id[e])]
                        ELSE World} :
       /\ Commit(w)
       /\ lastOp' = Op(m, uputs + 1, FALSE, w)
  /\ uputs' = uputs + 1
  /\ UNCHANGED <<pc, cur, runs, impl, handler, calls, nrun, active, trace,
                 svc_pc, svc_req, storeVars, timerVars, heap, rwlock>>

CrossNext ==
  \/ \E c \in Ent : Take(c)
  \/ \E c \in Ent : Return(c)
  \/ \E m \in {"dispatch", "finish", "to_state", "bind"}, t \in Ent,
        x \in 0..(NStates - 1) : CrossCall(m, t, x)

SpecCross == CrossInit /\ [][CrossNext]_vars

\* C34: a call made by a thread other than the owning catalyst's changes
\* neither the state, the bindings or the service_context of an existing
\* object nor the extra-sparkle list or the timer list of a catalyst; these
\* change only in the steps of the catalyst's own loop thread.
C34_QueueIsOnlyChannel ==
  [][lastOp' # lastOp =>
       /\ \A e \in made :
            /\ state'[e] = state[e]
            /\ bindings'[e] = bindings[e]
            /\ service_context'[e] = service_context[e]
       /\ extra_sparkles' = extra_sparkles
       /\ timers' = timers]_vars


\* ------------------------------------------------------------------ C35
MaxVersion == 2   \* no write is requested once version has this value

\* Condition.notify_all: every thread blocked in wait() on the condition
\* is woken; it re-tests its loop condition when it has the mutex again
notify_all(l, waiting, woken) ==
  [l EXCEPT !.at = [t \in LockThreads |->
                      IF l.at[t] = waiting THEN woken ELSE l.at[t]]]

\* A plausible slip: the reader tests only _writers_waiting
acquire_read_unless_waiting(l, t) ==
  IF l._writers_waiting > 0
    THEN [l EXCEPT !.at[t] = "r_wait"]
    ELSE [l EXCEPT !._readers_active = @ + 1, !.at[t] = "reading"]

\* RWLock._acquire_read, one pass of the loop under self._lock
RWLock__acquire_read(l, t) ==
  IF l._writing \/ l._writers_waiting > 0
    THEN [l EXCEPT !.at[t] = "r_wait"]
    ELSE [l EXCEPT !._readers_active = @ + 1, !.at[t] = "reading"]

RWLock__release_read(l, t) ==
  LET l1 == [l EXCEPT !._readers_active = @ - 1, !.at[t] = "idle"] IN
  IF l1._readers_active = 0 /\ l1._writers_waiting > 0
    THEN notify_all(l1, "w_wait", "w_woken")
    ELSE l1

\* RWLock._acquire_write, lines 70-74: one pass of the loop and what
\* follows it; (version + 1) & 0x7FFFFFFF wraps 2^31 - 1 to 0
RWLock__write_loop(l, t) ==
  IF l._readers_active > 0 \/ l._writing
    THEN [l EXCEPT !.at[t] = "w_wait"]
    ELSE [l EXCEPT !._writers_waiting = @ - 1,
                   !._writing = TRUE,
                   !.version = IF @ = 2147483647 THEN 0 ELSE @ + 1,
                   !.at[t] = "writing"]

RWLock__acquire_write(l, t) ==
  RWLock__write_loop([l EXCEPT !._writers_waiting = @ + 1], t)

RWLock__release_write(l, t) ==
  LET l1 == [l EXCEPT !._writing = FALSE, !.at[t] = "idle"] IN
  IF l1._writers_waiting > 0
    THEN notify_all(l1, "w_wait", "w_woken")
    ELSE notify_all(l1, "r_wait", "r_woken")

\* with lock.read_access(): entry, or the re-test after a wake-up
AcquireRead(t) ==
  /\ rwlock.at[t] \in {"idle", "r_woken"}
  /\ rwlock' = RWLock__acquire_read(rwlock, t)
  /\ UNCHANGED <<coreVars, storeVars, timerVars, heap>>

ReleaseRead(t) ==
  /\ rwlock.at[t] = "reading"
  /\ rwlock' = RWLock__release_read(rwlock, t)
  /\ UNCHANGED <<coreVars, storeVars, timerVars, heap>>

\* with lock.write_access(): entry
AcquireWrite(t) ==
  /\ rwlock.at[t] = "idle" /\ rwlock.version < MaxVersion
  /\ rwlock' = RWLock__acquire_write(rwlock, t)
  /\ UNCHANGED <<coreVars, storeVars, timerVars, heap>>

\* a writer woken from _can_write.wait() re-tests the loop condition
WriteWake(t) ==
  /\ rwlock.at[t] = "w_woken"
  /\ rwlock' = RWLock__write_loop(rwlock, t)
  /\ UNCHANGED <<coreVars, storeVars, timerVars, heap>>

ReleaseWrite(t) ==
  /\ rwlock.at[t] = "writing"
  /\ rwlock' = RWLock__release_write(rwlock, t)
  /\ UNCHANGED <<coreVars, storeVars, timerVars, heap>>

LockNext ==
  \/ \E t \in LockThreads : AcquireRead(t)
  \/ \E t \in LockThreads : ReleaseRead(t)
  \/ \E t \in LockThreads : AcquireWrite(t)
  \/ \E t \in LockThreads : WriteWake(t)
  \/ \E t \in LockThreads : ReleaseWrite(t)

SpecLock == LedgerInit /\ [][LockNext]_vars

Readers == {t \in LockThreads : rwlock.at[t] = "reading"}
Writers == {t \in LockThreads : rwlock.at[t] = "writing"}
WritersWaiting == {t \in LockThreads : rwlock.at[t] \in {"w_wait", "w_woken"}}

\* C35: at any time the lock is held by at most one writer and then by no
\* reader, or by readers only; and a thread enters read_access only in a
\* step in which no thread is writing or waiting to write.
C35_ReadersOrOneWriter ==
  /\ [](/\ Cardinality(Writers) <= 1
        /\ Writers # {} => Readers = {})
  /\ [][\A t \in LockThreads :
          (rwlock.at[t] # "reading" /\ rwlock'.at[t] = "reading") =>
            Writers = {} /\ WritersWaiting = {}]_vars

\* two threads read at the same time, after a write, while the third
\* waits to write
C35_Witness ==
  /\ Cardinality(Readers) = 2
  /\ \E t \in LockThreads : rwlock.at[t] = "w_wait"
  /\ rwlock.version > 0


\* ------------------------------------------------------------------ C36
\* the tonics created on catalyst c, the catalyst itself left out
AttachedTo(c) ==
  {t \in made' : t # c /\ kind[t] # "essence" /\ catalyst'[t] = c}

\* C36: in every step in which the sparkling flag of a catalyst becomes
\* false, every tonic that was created on that catalyst has id == -1
\* afterwards.
C36_StopsOnlyWithoutTonics ==
  [][\A c \in Ent :
       (sparkling[c] /\ ~sparkling'[c]) =>
         \A t \in AttachedTo(c) : id'[t] = -1]_vars


\* ------------------------------------------------------------------ C37
\* the loop of catalyst c hands a sparkle that leaves the current state of
\* its tonic (a change to a different state, or the stop of the machine)
\* to _execute_sparkle, and the tonic is in a state at that moment
LeavesState(c) ==
  /\ pc'[c] \in {"exec", "xexec"} /\ cur'[c] # cur[c]
  /\ runs'[c]
  /\ state'[cur'[c].inst] # -1
  /\ \/ cur'[c].name = "_ttinternal_state_machine_stop"
     \/ /\ cur'[c].name = "_ttinternal_state_change_to"
        /\ cur'[c].arg # state'[cur'[c].inst]

\* C37: a tonic leaves a state it has entered only right after its on_exit
\* has run: the sparkle executed before the change of state or the stop of
\* the machine is ttse__on_exit of the same tonic.
C37_EnterExitAlternate ==
  [][\A c \in Ent :
       LeavesState(c) =>
         /\ pc[c] \in {"exec", "xexec"} /\ runs[c]
         /\ cur[c].inst = cur'[c].inst
         /\ cur[c].name = "ttse__on_exit"]_vars


\* ------------------------------------------------------------------ C38
\* the loop of every catalyst is running and has processed its queue
AllProcessed ==
  /\ lastOp.op = "main_running"
  /\ \A c \in made :
       kind[c] = "catalyst" =>
         /\ pc[c] = "idle"
         /\ catalyst_queue[c] = <<>> /\ extra_sparkles[c] = <<>>

\* C38: a tonic whose finish() has taken effect reaches id == -1 once the
\* catalysts have processed their queues.  A state in which every loop is
\* idle with an empty queue can be extended by stuttering to a behaviour
\* in which every loop keeps running, so in such a state no tonic may
\* still be finishing with id >= 0.
C38_FinishCompletes ==
  AllProcessed =>
    \A t \in made : (kind[t] # "essence" /\ finishing[t]) => id[t] = -1


\* ------------------------------------------------------------------ C39
\* C39: in every flush, a recursive listener subscribed at the root path
\* "" with no exclude list and no ignored source is called with every
\* event of the batch, whatever the path of the event.
C39_RootListenerGetsAll ==
  \A n \in 1..Len(log) :
    LET f == log[n] IN
    <<>> \in DOMAIN f.subs =>
      \A j \in 1..Len(f.subs[<<>>]) :
        LET entry == f.subs[<<>>][j]
            got   == CallsTo(f, <<>>, j)
        IN (/\ entry.recursive /\ entry.exclude = <<>>
            /\ entry.ignore_source = NoSrc) =>
             \A i \in 1..Len(f.batch) :
               \E k \in 1..Len(got) :
                 \E m \in 1..Len(got[k].evs) : got[k].evs[m] = f.batch[i]


\* ------------------------------------------------------------------ C40
\* the nodes a step removes from the store
Removed == DOMAIN storage \ DOMAIN storage'

\* path A lies above path p
IsAbove(A, p) == IsUnder(p, A) \/ (A = <<>> /\ p # <<>>)

\* C40: a step that removes nodes leaves no subscription at the path of a
\* removed node and leaves the subscriptions at the paths above them as
\* they were; a step that changes the nodes of the store, such as one
\* that creates a removed path again, adds no subscription; and every
\* callback of a step goes to an entry that was subscribed when the step
\* began, so a listener whose subscription was removed is not called again.
C40_RemoveDropsSubscriptions ==
  [][/\ \A p \in Removed : p \notin DOMAIN subscribers'
     /\ \A A \in DOMAIN subscribers :
          (A \notin Removed /\ \E p \in Removed : IsAbove(A, p)) =>
            A \in DOMAIN subscribers' /\ subscribers'[A] = subscribers[A]
     /\ storage' # storage =>
          \A P \in DOMAIN subscribers' :
            P \in DOMAIN subscribers /\ subscribers'[P] = subscribers[P]
     /\ \A n \in 1..Len(log') :
          \A k \in 1..Len(log'[n].calls) :
            LET c == log'[n].calls[k] IN
            /\ c.path \in DOMAIN subscribers
            /\ c.i <= Len(subscribers[c.path])]_vars

\* remove('a/b') has just returned: its flush called the listener at a/b
\* with the removal event; the node and that subscription are gone and
\* the subscription at 'a' is still there
C40_Witness ==
  /\ <<"a", "/", "b">> \notin DOMAIN storage
  /\ <<"a", "/", "b">> \notin DOMAIN subscribers
  /\ <<"a">> \in DOMAIN subscribers
  /\ \E n \in 1..Len(log) :
       /\ <<"a", "/", "b">> \in DOMAIN log[n].subs
       /\ \E k \in 1..Len(log[n].calls) :
            /\ log[n].calls[k].path = <<"a", "/", "b">>
            /\ \E m \in 1..Len(log[n].calls[k].evs) :
                 /\ log[n].calls[k].evs[m].path = <<"a", "/", "b">>
                 /\ log[n].calls[k].evs[m].new = None

====
